---- MODULE Spec2Model ----
(***************************************************************************)
(* A model of the SSTable store of the Hummock state store                 *)
(* (storage/src/hummock/sstable_store.rs): the object store it writes to,  *)
(* the block cache and the meta cache, and the callers that run put, get,  *)
(* sstable, delete_sst_data and put_sst_data_stream concurrently.  Every   *)
(* await on the object store is a step of its own: the call is issued in   *)
(* one step and completes (with success or an I/O error) in a later one.   *)
(***************************************************************************)
EXTENDS Integers, Sequences, FiniteSets, TLC

\* ------------------------------------------------------------------ bounds
\* The most meta nodes started on one meta store.
NumNodes == 3
\* Cap on the lists recorded for one plan node id.
MaxLists == 2
\* Number of concurrent callers of the store.
NumCallers == 2
\* Cap on the block request counter (the number of get calls of a behaviour).
MaxRequests == 2

Callers == 1 .. NumCallers

\* ------------------------------------------------------------- data model
\* CachePolicy
CachePolicy == {"Disable", "Fill", "NotFill"}

\* The SSTable files of the deployment: an id names one immutable file.
SstIds == {1, 2}

\* Files a caller passes to put with data that does not match the block
\* metas: the data of file 3 ends inside its second block, the second block
\* of file 4 has no bytes.
MismatchedIds == {3, 4}

\* sst.meta.block_metas of each file: records {offset, len} in block order.
block_metas(sst_id) ==
    CASE sst_id = 1 -> << [offset |-> 0, len |-> 2], [offset |-> 2, len |-> 2] >>
      [] sst_id = 3 -> << [offset |-> 0, len |-> 2], [offset |-> 2, len |-> 2] >>
      [] sst_id = 4 -> << [offset |-> 0, len |-> 2], [offset |-> 2, len |-> 0] >>
      [] OTHER -> << [offset |-> 0, len |-> 2] >>

\* The Sstable value {id, meta} a caller passes to put and get.
Sstable(sst_id) == [id |-> sst_id, meta |-> [block_metas |-> block_metas(sst_id)]]

\* The data bytes a caller passes to put with Sstable(sst_id).
DataOf(sst_id) ==
    CASE sst_id = 1 -> << "A", "A", "B", "B" >>
      [] sst_id = 3 -> << "D", "D", "D" >>
      [] sst_id = 4 -> << "E", "E" >>
      [] OTHER -> << "C", "C" >>

\* Block indices a caller may ask for: the in-range ones and one past the end.
BlockIdxs == 0 .. 2

\* SstableStore.path, the prefix of every object key.
path == "hummock"

\* get_sst_meta_path: format!("{}/{}.meta", self.path, sst_id)
get_sst_meta_path(sst_id) == path \o "/" \o ToString(sst_id) \o ".meta"

\* A data path that carries the suffix of the meta path.
get_sst_data_path_meta_suffix(sst_id) == path \o "/" \o ToString(sst_id) \o ".meta"

\* get_sst_data_path: format!("{}/{}.data", self.path, sst_id)
get_sst_data_path(sst_id) == path \o "/" \o ToString(sst_id) \o ".data"

\* data.slice(offset..offset + len): the bytes at [offset, offset + len).
Slice(bytes, offset, len) == SubSeq(bytes, offset + 1, offset + len)

\* ---------------------------------------------------------------- results
\* HummockResult: Ok(value) or an error kind wrapping its cause.
NoResult == [kind |-> "None", val |-> [cause |-> "none"]]
Ok(v) == [kind |-> "Ok", val |-> v]
Err(k, c) == [kind |-> k, val |-> [cause |-> c]]
\* HummockError::object_io_error(e)
object_io_error(e) == Err("ObjectIoError", e)
\* HummockError::invalid_block()
invalid_block == Err("InvalidBlock", "invalid block")
\* e.to_string(): the display form of an error.
to_string(e) == e.kind \o ": " \o e.val.cause

\* ----------------------------------------------------------------- codecs
\* Block::decode: consumes the bytes whole; no bytes is no block.
Block_decode(bytes) ==
    IF Len(bytes) = 0 THEN invalid_block ELSE Ok([data |-> bytes])

\* The numbers a meta byte can hold, and the parse of one byte.
Digits == 0 .. 9
ParseNat(s) == CHOOSE n \in Digits : ToString(n) = s

\* SstableMeta::encode_to_bytes: the block count, then offset and len of
\* each block, one byte each.
encode_to_bytes(meta) ==
    LET bm == meta.block_metas
    IN  << ToString(Len(bm)) >> \o
        [i \in 1 .. 2 * Len(bm) |->
            IF i % 2 = 1 THEN ToString(bm[(i + 1) \div 2].offset)
            ELSE ToString(bm[i \div 2].len)]

\* SstableMeta::decode: the inverse of encode_to_bytes; bytes of the wrong
\* length are corrupt.
SstableMeta_decode(buf) ==
    IF Len(buf) = 0 \/ (\E i \in 1 .. Len(buf) : \A n \in Digits : ToString(n) /= buf[i])
    THEN Err("Corrupt", "corrupt meta")
    ELSE LET n == ParseNat(buf[1])
         IN  IF Len(buf) /= 1 + 2 * n
             THEN Err("Corrupt", "corrupt meta")
             ELSE Ok([block_metas |->
                        [i \in 1 .. n |->
                            [offset |-> ParseNat(buf[2 * i]),
                             len |-> ParseNat(buf[2 * i + 1])]]])

\* Sstable::encoded_size, the weight of a meta cache entry.
encoded_size(sst) == Len(encode_to_bytes(sst.meta))

\* The weight of a block cache entry: the size of the block.
block_weight(block) == Len(block.data)

\* ------------------------------------------------------------------- maps
MapPut(m, k, v) == [x \in DOMAIN m \cup {k} |-> IF x = k THEN v ELSE m[x]]
MapRemove(m, k) == [x \in DOMAIN m \ {k} |-> m[x]]

RECURSIVE SumOver(_, _)
SumOver(f, S) ==
    IF S = {} THEN 0
    ELSE LET x == CHOOSE y \in S : TRUE IN f[x] + SumOver(f, S \ {x})

\* Insert into a cache bounded by weight.  `full` is the cache with the
\* entry k added and w the weight of each of its entries: entries are evicted
\* until the total weight is within the capacity.  Which entries go is the
\* cache's choice (approximate LRU); no more are evicted than needed, and
\* the new entry stays unless it alone exceeds the capacity.
CacheInsert(full, w, k, cap) ==
    LET fits(S) == SumOver(w, S) <= cap
        Keep == {S \in SUBSET DOMAIN full :
                    /\ fits(S)
                    /\ w[k] <= cap => k \in S
                    /\ \A x \in DOMAIN full \ S : ~fits(S \cup {x})}
    IN  {[x \in S |-> full[x]] : S \in Keep}

\* BlockCache::insert(sst_id, block_idx, block), under the capacity cap: the
\* block caches the insert may leave.
BlockCache_insert(cache, key, block, cap) ==
    LET full == MapPut(cache, key, block)
    IN  CacheInsert(full, [x \in DOMAIN full |-> block_weight(full[x])], key, cap)

\* A meta cache built with no weigher: every entry weighs one.
meta_cache_insert_unweighed(cache, sst_id, sst, cap) ==
    LET full == MapPut(cache, sst_id, sst)
    IN  CacheInsert(full, [x \in DOMAIN full |-> 1], sst_id, cap)

\* The insert of meta_cache, built with the weigher encoded_size and
\* max_capacity cap: the meta caches the insert may leave.
meta_cache_insert(cache, sst_id, sst, cap) ==
    LET full == MapPut(cache, sst_id, sst)
    IN  CacheInsert(full, [x \in DOMAIN full |-> encoded_size(full[x])], sst_id, cap)

\* BlockCache::key / the key of a block: (sst_id, block_idx).
BlockKey(sst_id, block_idx) == << sst_id, block_idx >>

\* ----------------------------------------------------------- object store
\* BlockLocation {offset, size} or None for a full read.
None == << >>
BlockLocation(offset, size) == << offset, size >>

\* ObjectStore::upload / upload_stream: on success the object holds bytes;
\* a failed upload writes nothing.
upload(objects, obj_path, bytes, ok) ==
    IF ok THEN MapPut(objects, obj_path, bytes) ELSE objects

\* ObjectStore::delete: on success the object is gone.
delete(objects, obj_path, ok) ==
    IF ok THEN MapRemove(objects, obj_path) ELSE objects

\* ObjectStore::read: the whole object, or the bytes of the location; fails
\* on an I/O error, on a missing object and on a location outside the object.
read(objects, obj_path, block_loc, ok) ==
    IF ~ok \/ obj_path \notin DOMAIN objects
    THEN Err("Io", "read failed")
    ELSE IF block_loc = None
    THEN Ok(objects[obj_path])
    ELSE IF block_loc[1] + block_loc[2] > Len(objects[obj_path])
    THEN Err("Io", "read failed")
    ELSE Ok(Slice(objects[obj_path], block_loc[1], block_loc[2]))

\* One call on the object store as a caller's log records it.
Call(o, obj_path, block_loc) ==
    [op |-> o, path |-> obj_path, range |-> block_loc, status |-> "pending"]

\* The log with its last (pending) call completed.
Completed(log, ok) ==
    [log EXCEPT ![Len(log)].status = IF ok THEN "ok" ELSE "err"]

\* The log of a call whose future is dropped: the call it was awaiting on
\* the object store is dropped with it and takes no effect.
Dropped(log) ==
    [i \in 1 .. Len(log) |->
        IF log[i].status = "pending" THEN [log[i] EXCEPT !.status = "dropped"]
        ELSE log[i]]

\* ------------------------------------------------------------------ state
VARIABLES
    store,                 \* the object store: object path -> bytes
    block_cache,           \* BlockCache: (sst_id, block_idx) -> Block
    meta_cache,            \* meta_cache: sst_id -> Sstable
    block_cache_capacity,  \* capacity of the block cache, in bytes
    meta_cache_capacity,   \* max_capacity of the meta cache, in bytes
    block_request_counts,  \* stats.sst_store_block_request_counts
    pc,                    \* where each caller's current call stands
    op,                    \* the call each caller runs and its arguments
    cursor,                \* put: the index of the next block to seed
    result,                \* what the caller's call returned
    calls,                 \* the object store calls of the caller's call
    deleted_data,          \* history: ids whose data object a delete removed
    share_required_cols_map, \* ColumnPruningContext: plan node id -> lists
    required_cols_ret,     \* the last call on the context and what it returned
    required_since_take,   \* history: the lists added per id since its last take
    nodes,                 \* the meta nodes rpc_serve_with_store has started
    lease,                 \* the meta store's leader lease: its holder, or 0
    election,              \* each node's election task: running or stopped
    leader_status,         \* what each node's election last sent on leader_tx
    leader_rx_unseen,      \* leader_rx holds a value the service task has not seen
    svc_pc,                \* where each node's service task (join_handle) stands
    follower,              \* each node's follower service task
    svc_shutdown           \* a shutdown was sent on the node's svc_shutdown_tx

\* The state of the column pruning context.
pruning_vars == << share_required_cols_map, required_cols_ret, required_since_take >>

\* The state of the sstable store.
store_vars == << store, block_cache, meta_cache, block_cache_capacity,
                meta_cache_capacity, block_request_counts, pc, op, cursor,
                result, calls, deleted_data >>

\* The state of the meta nodes and of the meta store they share.
node_vars == << nodes, lease, election, leader_status, leader_rx_unseen, svc_pc,
               follower, svc_shutdown >>

vars == << store, block_cache, meta_cache, block_cache_capacity,
           meta_cache_capacity, block_request_counts, pc, op, cursor, result,
           calls, deleted_data, share_required_cols_map, required_cols_ret,
           required_since_take, nodes, lease, election, leader_status,
           leader_rx_unseen, svc_pc, follower, svc_shutdown >>

\* The meta nodes a deployment may start.
Nodes == 1 .. NumNodes

\* The meta nodes before any is started, and a node's state when
\* rpc_serve_with_store returns: run_elections has started its election, the
\* service task is spawned and waits for the first leader status.
NodesAsStarted ==
    /\ lease = 0
    /\ election = [n \in Nodes |-> IF n \in nodes THEN "running" ELSE "stopped"]
    /\ leader_status = [n \in Nodes |-> "unknown"]
    /\ leader_rx_unseen = [n \in Nodes |-> FALSE]
    /\ svc_pc = [n \in Nodes |-> IF n \in nodes THEN "wait_first" ELSE "absent"]
    /\ follower = [n \in Nodes |-> "none"]
    /\ svc_shutdown = [n \in Nodes |-> FALSE]

\* No meta node is started.
NoNodes == nodes = {} /\ NodesAsStarted

\* Plan node ids and the required-column lists the optimizer passes.
PlanNodeIds == {1, 2}
RequiredCols == {<< 0 >>, << 1, 0 >>}

\* ColumnPruningContext::new: no list is recorded.
ColumnPruningContext_new ==
    /\ share_required_cols_map = << >>
    /\ required_cols_ret = [call |-> "none", id |-> 0, val |-> 0]
    /\ required_since_take = [id \in PlanNodeIds |-> << >>]

\* The capacities a store is constructed with: one that holds every block
\* and every meta, and one that holds a single block and the larger meta, so
\* that a second insert evicts.
LargeCaches == [block |-> 6, meta |-> 8]
SmallCaches == [block |-> 2, meta |-> 5]
CacheCapacities == {LargeCaches, SmallCaches}

NoOp == [name |-> "none", id |-> 0, idx |-> 0, policy |-> "Disable"]

\* SstableStore::new: empty caches over an object store with no objects.
SstableStore_new ==
    /\ store = << >>
    /\ block_cache = << >>
    /\ meta_cache = << >>
    /\ \E c \in CacheCapacities :
          /\ block_cache_capacity = c.block
          /\ meta_cache_capacity = c.meta
    /\ block_request_counts = 0
    /\ pc = [p \in Callers |-> "idle"]
    /\ op = [p \in Callers |-> NoOp]
    /\ cursor = [p \in Callers |-> 0]
    /\ result = [p \in Callers |-> NoResult]
    /\ calls = [p \in Callers |-> << >>]
    /\ deleted_data = {}

\* A store constructed on an empty object store, a new column pruning
\* context, no meta node.
Init ==
    /\ SstableStore_new
    /\ ColumnPruningContext_new
    /\ NoNodes

\* A caller that runs no call: it has made none, or its last one returned
\* or was cancelled (its future dropped).
Ready(p) == pc[p] \in {"idle", "done", "cancelled"}

\* Caller p enters a call: its log starts with the first object store call.
Enter(p, state, call, first) ==
    /\ pc' = [pc EXCEPT ![p] = state]
    /\ op' = [op EXCEPT ![p] = call]
    /\ cursor' = [cursor EXCEPT ![p] = 0]
    /\ result' = [result EXCEPT ![p] = NoResult]
    /\ calls' = [calls EXCEPT ![p] = first]

\* Caller p's call returns r in the step that enters it, with no object
\* store call made.
EnterReturn(p, call, r) ==
    /\ pc' = [pc EXCEPT ![p] = "done"]
    /\ op' = [op EXCEPT ![p] = call]
    /\ cursor' = [cursor EXCEPT ![p] = 0]
    /\ result' = [result EXCEPT ![p] = r]
    /\ calls' = [calls EXCEPT ![p] = << >>]

\* Caller p's call returns r.
Return(p, r) ==
    /\ pc' = [pc EXCEPT ![p] = "done"]
    /\ result' = [result EXCEPT ![p] = r]

\* What no operation of the store changes: the capacities, fixed by new, and
\* the state of the other components.
UNCHANGED_config ==
    /\ UNCHANGED << block_cache_capacity, meta_cache_capacity >>
    /\ UNCHANGED pruning_vars
    /\ UNCHANGED node_vars

\* -------------------------------------------------------------------- put
\* put, lines 74-76: put_sst_data issues the upload of the data object.
put_begin(p, sst_id, policy) ==
    /\ Ready(p)
    /\ Enter(p, "put_data",
             [name |-> "put", id |-> sst_id, idx |-> 0, policy |-> policy],
             << Call("upload", get_sst_data_path(sst_id), None) >>)
    /\ UNCHANGED << store, block_cache, meta_cache, block_request_counts,
                    deleted_data >>
    /\ UNCHANGED_config

\* A put that goes on to the meta upload after a failed data upload.
put_data_failed_ignored(p) ==
    /\ pc' = [pc EXCEPT ![p] = "put_meta"]
    /\ calls' = [calls EXCEPT ![p] =
                    Append(Completed(@, FALSE),
                           Call("upload", get_sst_meta_path(op[p].id), None))]
    /\ UNCHANGED result

\* A put that deletes the data object after a failed data upload.
put_data_failed_cleanup(p) ==
    /\ pc' = [pc EXCEPT ![p] = "put_rollback"]
    /\ calls' = [calls EXCEPT ![p] =
                    Append(Completed(@, FALSE),
                           Call("delete", get_sst_data_path(op[p].id), None))]
    /\ UNCHANGED result

\* put, line 78: the data upload failed; `?` returns the error.
put_data_failed(p) ==
    /\ Return(p, object_io_error("upload data failed"))
    /\ calls' = [calls EXCEPT ![p] = Completed(@, FALSE)]

\* put, lines 80 and 103-107: put_meta issues the upload of the meta object.
put_meta(p) ==
    /\ pc' = [pc EXCEPT ![p] = "put_meta"]
    /\ calls' = [calls EXCEPT ![p] =
                    Append(Completed(@, TRUE),
                           Call("upload", get_sst_meta_path(op[p].id), None))]
    /\ UNCHANGED result

\* put, lines 76-80: the data upload completes.
put_data_done(p, ok) ==
    /\ pc[p] = "put_data"
    /\ store' = upload(store, get_sst_data_path(op[p].id), DataOf(op[p].id), ok)
    /\ IF ok THEN put_meta(p) ELSE put_data_failed(p)
    /\ UNCHANGED << block_cache, meta_cache, block_request_counts, op, cursor,
                    deleted_data >>
    /\ UNCHANGED_config

\* A put that returns the meta upload's error without the rollback delete.
put_no_rollback(p) ==
    /\ Return(p, object_io_error("upload meta failed"))
    /\ calls' = [calls EXCEPT ![p] = Completed(@, FALSE)]
    /\ UNCHANGED cursor

\* put, lines 80-82: the meta upload failed; delete_sst_data issues the
\* delete of the data object.
put_rollback(p) ==
    /\ pc' = [pc EXCEPT ![p] = "put_rollback"]
    /\ calls' = [calls EXCEPT ![p] =
                    Append(Completed(@, FALSE),
                           Call("delete", get_sst_data_path(op[p].id), None))]
    /\ UNCHANGED << result, cursor >>

\* A put that seeds the blocks whatever its policy.
put_uploaded_always_fills(p) ==
    /\ calls' = [calls EXCEPT ![p] = Completed(@, TRUE)]
    /\ IF Len(block_metas(op[p].id)) > 0
       THEN /\ pc' = [pc EXCEPT ![p] = "put_fill"]
            /\ cursor' = [cursor EXCEPT ![p] = 0]
            /\ UNCHANGED result
       ELSE /\ Return(p, Ok([len |-> Len(DataOf(op[p].id))]))
            /\ UNCHANGED cursor

\* put, lines 87-100: the uploads are done; with Fill the blocks are seeded
\* next, otherwise put returns the length of data.
put_uploaded(p) ==
    /\ calls' = [calls EXCEPT ![p] = Completed(@, TRUE)]
    /\ IF op[p].policy = "Fill" /\ Len(block_metas(op[p].id)) > 0
       THEN /\ pc' = [pc EXCEPT ![p] = "put_fill"]
            /\ cursor' = [cursor EXCEPT ![p] = 0]
            /\ UNCHANGED result
       ELSE /\ Return(p, Ok([len |-> Len(DataOf(op[p].id))]))
            /\ UNCHANGED cursor

\* put, lines 80-87: the meta upload completes.
put_meta_done(p, ok) ==
    /\ pc[p] = "put_meta"
    /\ store' = upload(store, get_sst_meta_path(op[p].id),
                       encode_to_bytes(Sstable(op[p].id).meta), ok)
    /\ IF ok THEN put_uploaded(p) ELSE put_rollback(p)
    /\ UNCHANGED << block_cache, meta_cache, block_request_counts, op,
                    deleted_data >>
    /\ UNCHANGED_config

\* put, lines 81-84: what put returns once the rollback delete completed:
\* the delete's error if it failed (`?`), the meta upload's error otherwise.
put_rollback_result(ok) ==
    IF ok THEN object_io_error("upload meta failed")
    ELSE object_io_error("delete data failed")

\* put, lines 81-84: the rollback delete completes and put returns.
put_rollback_done(p, ok) ==
    /\ pc[p] = "put_rollback"
    /\ store' = delete(store, get_sst_data_path(op[p].id), ok)
    /\ deleted_data' = IF ok THEN deleted_data \cup {op[p].id} ELSE deleted_data
    /\ calls' = [calls EXCEPT ![p] = Completed(@, ok)]
    /\ Return(p, put_rollback_result(ok))
    /\ UNCHANGED << block_cache, meta_cache, block_request_counts, op, cursor >>
    /\ UNCHANGED_config

\* add_block_cache, lines 128-137: decode the bytes and insert the block.
\* The set of caches the insert may leave, or {} when the decode fails.
add_block_cache(table_id, block_idx, block_data) ==
    LET block == Block_decode(block_data)
    IN  IF block.kind /= "Ok" THEN {}
        ELSE BlockCache_insert(block_cache, BlockKey(table_id, block_idx),
                               block.val, block_cache_capacity)

\* A slice that forgets the offset of the block.
put_slice_no_offset(data, meta) == Slice(data, 0, meta.len)

\* put, lines 92-94: data.slice(offset..offset + len)
put_slice(data, meta) == Slice(data, meta.offset, meta.len)

\* A Fill loop that returns the error of a block it cannot seed.
put_fill_returns_error(p) ==
    /\ pc[p] = "put_fill"
    /\ LET sst_id == op[p].id
           data == DataOf(sst_id)
           meta == block_metas(sst_id)[cursor[p] + 1]
           inside == meta.offset + meta.len <= Len(data)
           seeded == IF inside
                     THEN add_block_cache(sst_id, cursor[p], put_slice(data, meta))
                     ELSE {}
       IN  IF seeded = {}
           THEN /\ Return(p, invalid_block)
                /\ UNCHANGED << block_cache, cursor >>
           ELSE /\ block_cache' \in seeded
                /\ cursor' = [cursor EXCEPT ![p] = @ + 1]
                /\ IF cursor[p] + 1 = Len(block_metas(sst_id))
                   THEN Return(p, Ok([len |-> Len(data)]))
                   ELSE UNCHANGED << pc, result >>
    /\ UNCHANGED << store, meta_cache, block_request_counts, op, calls,
                    deleted_data >>
    /\ UNCHANGED_config

\* put, lines 89-100: one turn of the Fill loop seeds block `cursor`; a slice
\* outside data and a failed add_block_cache (unwrap) panic.
put_fill(p) ==
    /\ pc[p] = "put_fill"
    /\ LET sst_id == op[p].id
           data == DataOf(sst_id)
           meta == block_metas(sst_id)[cursor[p] + 1]
           inside == meta.offset + meta.len <= Len(data)
           seeded == IF inside
                     THEN add_block_cache(sst_id, cursor[p], put_slice(data, meta))
                     ELSE {}
       IN  IF seeded = {}
           THEN /\ Return(p, Err("Panic", "put: block not seeded"))
                /\ UNCHANGED << block_cache, cursor >>
           ELSE /\ block_cache' \in seeded
                /\ cursor' = [cursor EXCEPT ![p] = @ + 1]
                /\ IF cursor[p] + 1 = Len(block_metas(sst_id))
                   THEN Return(p, Ok([len |-> Len(data)]))
                   ELSE UNCHANGED << pc, result >>
    /\ UNCHANGED << store, meta_cache, block_request_counts, op, calls,
                    deleted_data >>
    /\ UNCHANGED_config

\* A put whose drop deletes the data object it uploaded when no meta object
\* followed it.
put_cancel_rolls_back(p) ==
    /\ pc[p] \in {"put_data", "put_meta", "put_rollback", "put_fill"}
    /\ pc' = [pc EXCEPT ![p] = "cancelled"]
    /\ calls' = [calls EXCEPT ![p] = Dropped(@)]
    /\ store' = IF pc[p] = "put_meta"
                THEN delete(store, get_sst_data_path(op[p].id), TRUE)
                ELSE store
    /\ UNCHANGED << block_cache, meta_cache, block_request_counts, op, cursor,
                    result, deleted_data >>
    /\ UNCHANGED_config

\* put, lines 76-96: the future of put is dropped at one of its awaits (the
\* data upload, the meta upload, the rollback delete, an add_block_cache of
\* the Fill loop): put runs no further and nothing undoes what it did.
put_cancel(p) ==
    /\ pc[p] \in {"put_data", "put_meta", "put_rollback", "put_fill"}
    /\ pc' = [pc EXCEPT ![p] = "cancelled"]
    /\ calls' = [calls EXCEPT ![p] = Dropped(@)]
    /\ UNCHANGED << store, block_cache, meta_cache, block_request_counts, op,
                    cursor, result, deleted_data >>
    /\ UNCHANGED_config

\* ------------------------------------ delete_sst_data, put_sst_data_stream
\* delete_sst_data, lines 123-125: issues the delete of the data object.
delete_sst_data_begin(p, sst_id) ==
    /\ Ready(p)
    /\ Enter(p, "delete",
             [name |-> "delete_sst_data", id |-> sst_id, idx |-> 0,
              policy |-> "Disable"],
             << Call("delete", get_sst_data_path(sst_id), None) >>)
    /\ UNCHANGED << store, block_cache, meta_cache, block_request_counts,
                    deleted_data >>
    /\ UNCHANGED_config

\* A delete_sst_data that removes the meta object with the data object.
delete_sst_data_done_with_meta(p, ok) ==
    /\ pc[p] = "delete"
    /\ store' = delete(delete(store, get_sst_data_path(op[p].id), ok),
                       get_sst_meta_path(op[p].id), ok)
    /\ deleted_data' = IF ok THEN deleted_data \cup {op[p].id} ELSE deleted_data
    /\ calls' = [calls EXCEPT ![p] = Completed(@, ok)]
    /\ Return(p, IF ok THEN Ok([len |-> 0]) ELSE Err("Io", "delete data failed"))
    /\ UNCHANGED << block_cache, meta_cache, block_request_counts, op, cursor >>
    /\ UNCHANGED_config

\* delete_sst_data, lines 125-126: the delete completes; its result is
\* returned as it is.
delete_sst_data_done(p, ok) ==
    /\ pc[p] = "delete"
    /\ store' = delete(store, get_sst_data_path(op[p].id), ok)
    /\ deleted_data' = IF ok THEN deleted_data \cup {op[p].id} ELSE deleted_data
    /\ calls' = [calls EXCEPT ![p] = Completed(@, ok)]
    /\ Return(p, IF ok THEN Ok([len |-> 0]) ELSE Err("Io", "delete data failed"))
    /\ UNCHANGED << block_cache, meta_cache, block_request_counts, op, cursor >>
    /\ UNCHANGED_config

\* put_sst_data_stream, lines 114-120: issues the streaming upload of the
\* data object.
put_sst_data_stream_begin(p, sst_id) ==
    /\ Ready(p)
    /\ Enter(p, "stream",
             [name |-> "put_sst_data_stream", id |-> sst_id, idx |-> 0,
              policy |-> "Disable"],
             << Call("upload_stream", get_sst_data_path(sst_id), None) >>)
    /\ UNCHANGED << store, block_cache, meta_cache, block_request_counts,
                    deleted_data >>
    /\ UNCHANGED_config

\* put_sst_data_stream, lines 120-121: the streaming upload completes.
put_sst_data_stream_done(p, ok) ==
    /\ pc[p] = "stream"
    /\ store' = upload(store, get_sst_data_path(op[p].id), DataOf(op[p].id), ok)
    /\ calls' = [calls EXCEPT ![p] = Completed(@, ok)]
    /\ Return(p, IF ok THEN Ok([len |-> 0]) ELSE Err("Io", "upload data failed"))
    /\ UNCHANGED << block_cache, meta_cache, block_request_counts, op, cursor,
                    deleted_data >>
    /\ UNCHANGED_config

\* -------------------------------------------------------------------- get
\* The callers whose get_or_insert_with is fetching the block of key, and
\* those waiting for that fetch.
BlockFetchers(key) ==
    {q \in Callers : /\ pc[q] \in {"fill_fetch", "fill_detached"}
                     /\ BlockKey(op[q].id, op[q].idx) = key}
BlockWaiters(key) ==
    {q \in Callers : pc[q] = "wait" /\ BlockKey(op[q].id, op[q].idx) = key}

\* A fetch_block that reads the last block for an index past the end.
fetch_block_unchecked(p, call, state) ==
    LET n == Len(block_metas(call.id))
        block_meta == block_metas(call.id)[IF call.idx >= n THEN n ELSE call.idx + 1]
    IN  Enter(p, state, call,
              << Call("read", get_sst_data_path(call.id),
                      BlockLocation(block_meta.offset, block_meta.len)) >>)

\* get, lines 147-164: fetch_block up to its await: an index outside
\* block_metas is InvalidBlock, otherwise the ranged read is issued and the
\* caller waits for it in `state`.
fetch_block(p, call, state) ==
    IF call.idx >= Len(block_metas(call.id))
    THEN EnterReturn(p, call, invalid_block)
    ELSE LET block_meta == block_metas(call.id)[call.idx + 1]
         IN  Enter(p, state, call,
                   << Call("read", get_sst_data_path(call.id),
                           BlockLocation(block_meta.offset, block_meta.len)) >>)

\* get, line 181: CachePolicy::Disable => fetch_block.await
get_disable(p, call) == fetch_block(p, call, "fetch")

\* get, lines 172-176: CachePolicy::Fill =>
\* block_cache.get_or_insert_with(sst.id, block_index, fetch_block): a hit
\* returns the cached block, a miss joins the fetch in flight for the key
\* or, when there is none, runs fetch_block.
get_fill(p, call) ==
    LET key == BlockKey(call.id, call.idx)
    IN  IF key \in DOMAIN block_cache
        THEN EnterReturn(p, call, Ok(block_cache[key]))
        ELSE IF BlockFetchers(key) /= {}
        THEN Enter(p, "wait", call, << >>)
        ELSE fetch_block(p, call, "fill_fetch")

\* get, lines 177-180: CachePolicy::NotFill => block_cache.get, and
\* fetch_block.await on None.
get_not_fill(p, call) ==
    LET key == BlockKey(call.id, call.idx)
    IN  IF key \in DOMAIN block_cache
        THEN EnterReturn(p, call, Ok(block_cache[key]))
        ELSE fetch_block(p, call, "fetch")

\* A get whose Fill arm awaits fetch_block outside the cache.
get_policy_fill_bypasses(p, call) ==
    CASE call.policy = "Fill" -> get_disable(p, call)
      [] call.policy = "NotFill" -> get_not_fill(p, call)
      [] call.policy = "Disable" -> get_disable(p, call)

\* A get whose NotFill arm goes through get_or_insert_with.
get_policy_not_fill_fills(p, call) ==
    CASE call.policy = "Fill" -> get_fill(p, call)
      [] call.policy = "NotFill" -> get_fill(p, call)
      [] call.policy = "Disable" -> get_disable(p, call)

\* A get whose Disable arm looks the block up in the cache first.
get_policy_disable_looks_up(p, call) ==
    CASE call.policy = "Fill" -> get_fill(p, call)
      [] call.policy = "NotFill" -> get_not_fill(p, call)
      [] call.policy = "Disable" -> get_not_fill(p, call)

\* A get whose Fill arm returns the fetched block without installing it.
get_policy_fill_not_installed(p, call) ==
    CASE call.policy = "Fill" -> get_not_fill(p, call)
      [] call.policy = "NotFill" -> get_not_fill(p, call)
      [] call.policy = "Disable" -> get_disable(p, call)

\* get, lines 171-182: match policy.
get_policy(p, call) ==
    CASE call.policy = "Fill" -> get_fill(p, call)
      [] call.policy = "NotFill" -> get_not_fill(p, call)
      [] call.policy = "Disable" -> get_disable(p, call)

\* A get that counts a request only on the path that reads the object store.
get_begin_counts_fetches(p, sst_id, block_index, policy) ==
    /\ Ready(p)
    /\ block_request_counts < MaxRequests
    /\ get_policy(p, [name |-> "get", id |-> sst_id, idx |-> block_index,
                      policy |-> policy])
    /\ block_request_counts' =
          IF calls'[p] /= << >> THEN block_request_counts + 1
          ELSE block_request_counts
    /\ UNCHANGED << store, block_cache, meta_cache, deleted_data >>
    /\ UNCHANGED_config

\* get, lines 139-182: the request counter is incremented and the policy
\* picks the path.
get_begin(p, sst_id, block_index, policy) ==
    /\ Ready(p)
    /\ block_request_counts < MaxRequests
    /\ block_request_counts' = block_request_counts + 1
    /\ get_policy(p, [name |-> "get", id |-> sst_id, idx |-> block_index,
                      policy |-> policy])
    /\ UNCHANGED << store, block_cache, meta_cache, deleted_data >>
    /\ UNCHANGED_config

\* get, lines 160-163: the ranged read of the data object completes.
fetch_block_read(p, ok) ==
    read(store, calls[p][1].path, calls[p][1].range, ok)

\* A fetch_block that yields an empty block when its read fails.
fetch_block_result_default(block_data) ==
    IF block_data.kind /= "Ok"
    THEN Ok([data |-> << >>])
    ELSE Block_decode(block_data.val)

\* get, lines 164-168: what fetch_block yields once its read completed: the
\* read's error as ObjectIoError, else the decode of the bytes read.
fetch_block_result(block_data) ==
    IF block_data.kind /= "Ok"
    THEN object_io_error(block_data.val.cause)
    ELSE Block_decode(block_data.val)

\* get, lines 179 and 181: fetch_block.await completes outside the cache;
\* the block is returned and not installed.
get_fetch_done(p, ok) ==
    /\ pc[p] = "fetch"
    /\ LET block_data == fetch_block_read(p, ok)
       IN  /\ Return(p, fetch_block_result(block_data))
           /\ calls' = [calls EXCEPT ![p] = Completed(@, block_data.kind = "Ok")]
    /\ UNCHANGED << store, block_cache, meta_cache, block_request_counts, op,
                    cursor, deleted_data >>
    /\ UNCHANGED_config

\* BlockCache::get_or_insert_with, the fetch it ran completes: the block is
\* installed on success, and the block or the error goes to the caller that
\* ran the fetch (unless it was cancelled meanwhile) and to every caller
\* waiting on the key.
get_fill_fetch_done(p, ok) ==
    /\ pc[p] \in {"fill_fetch", "fill_detached"}
    /\ LET block_data == fetch_block_read(p, ok)
           r == fetch_block_result(block_data)
           key == BlockKey(op[p].id, op[p].idx)
           served == (IF pc[p] = "fill_fetch" THEN {p} ELSE {}) \cup
                     BlockWaiters(key)
       IN  /\ IF r.kind = "Ok"
              THEN block_cache' \in BlockCache_insert(block_cache, key, r.val,
                                                      block_cache_capacity)
              ELSE UNCHANGED block_cache
           /\ pc' = [q \in Callers |->
                        IF q \in served THEN "done"
                        ELSE IF q = p THEN "cancelled" ELSE pc[q]]
           /\ result' = [q \in Callers |-> IF q \in served THEN r ELSE result[q]]
           /\ calls' = [calls EXCEPT ![p] = Completed(@, block_data.kind = "Ok")]
    /\ UNCHANGED << store, meta_cache, block_request_counts, op, cursor,
                    deleted_data >>
    /\ UNCHANGED_config

\* A caller's future is dropped with everything it awaits: the caller runs
\* no further and its pending call on the object store is dropped.
drop_future(p) ==
    /\ pc' = [pc EXCEPT ![p] = "cancelled"]
    /\ calls' = [calls EXCEPT ![p] = Dropped(@)]

\* The future of a get_or_insert_with / try_get_with is dropped: a waiter
\* leaves the slot; the caller that runs the fetch leaves too, while the fetch
\* it started goes on, detached, to fulfil the slot.
slot_future_dropped(p, fetching, detached) ==
    /\ pc' = [pc EXCEPT ![p] = IF pc[p] = fetching THEN detached ELSE "cancelled"]
    /\ UNCHANGED calls

\* A get whose fetch is dropped with its caller, whatever the policy.
get_cancel_drops_fetch(p) ==
    /\ op[p].name = "get" /\ ~Ready(p) /\ pc[p] /= "fill_detached"
    /\ drop_future(p)
    /\ UNCHANGED << store, block_cache, meta_cache, block_request_counts, op,
                    cursor, result, deleted_data >>
    /\ UNCHANGED_config

\* get, lines 171-182: the future of get is dropped at its await: with
\* NotFill and Disable it awaits fetch_block itself, which is dropped with
\* it; with Fill it awaits get_or_insert_with.
get_cancel(p) ==
    /\ op[p].name = "get" /\ ~Ready(p) /\ pc[p] /= "fill_detached"
    /\ IF pc[p] = "fetch" THEN drop_future(p)
       ELSE slot_future_dropped(p, "fill_fetch", "fill_detached")
    /\ UNCHANGED << store, block_cache, meta_cache, block_request_counts, op,
                    cursor, result, deleted_data >>
    /\ UNCHANGED_config

\* ---------------------------------------------------------------- sstable
SstFetchers(sst_id) ==
    {q \in Callers : pc[q] \in {"sst_fetch", "sst_detached"} /\ op[q].id = sst_id}
SstWaiters(sst_id) ==
    {q \in Callers : pc[q] = "sst_wait" /\ op[q].id = sst_id}

\* An sstable that runs its fetch on every miss, joining none in flight.
sstable_begin_uncoalesced(p, sst_id) ==
    /\ Ready(p)
    /\ LET call == [name |-> "sstable", id |-> sst_id, idx |-> 0,
                    policy |-> "Fill"]
       IN  IF sst_id \in DOMAIN meta_cache
           THEN EnterReturn(p, call, Ok(meta_cache[sst_id]))
           ELSE Enter(p, "sst_fetch", call,
                      << Call("read", get_sst_meta_path(sst_id), None) >>)
    /\ UNCHANGED << store, block_cache, meta_cache, block_request_counts,
                    deleted_data >>
    /\ UNCHANGED_config

\* An sstable that reads the meta object even when the id is cached.
sstable_begin_always_fetches(p, sst_id) ==
    /\ Ready(p)
    /\ LET call == [name |-> "sstable", id |-> sst_id, idx |-> 0,
                    policy |-> "Fill"]
       IN  IF SstFetchers(sst_id) /= {}
           THEN Enter(p, "sst_wait", call, << >>)
           ELSE Enter(p, "sst_fetch", call,
                      << Call("read", get_sst_meta_path(sst_id), None) >>)
    /\ UNCHANGED << store, block_cache, meta_cache, block_request_counts,
                    deleted_data >>
    /\ UNCHANGED_config

\* sstable, lines 185-202: meta_cache.try_get_with(sst_id, fetch): a hit
\* returns the cached Sstable, a miss joins the fetch in flight for the id
\* or, when there is none, runs fetch, which issues the full read of the
\* meta object.
sstable_begin(p, sst_id) ==
    /\ Ready(p)
    /\ LET call == [name |-> "sstable", id |-> sst_id, idx |-> 0,
                    policy |-> "Fill"]
       IN  IF sst_id \in DOMAIN meta_cache
           THEN EnterReturn(p, call, Ok(meta_cache[sst_id]))
           ELSE IF SstFetchers(sst_id) /= {}
           THEN Enter(p, "sst_wait", call, << >>)
           ELSE Enter(p, "sst_fetch", call,
                      << Call("read", get_sst_meta_path(sst_id), None) >>)
    /\ UNCHANGED << store, block_cache, meta_cache, block_request_counts,
                    deleted_data >>
    /\ UNCHANGED_config

\* sstable, lines 187-191: the full read of the meta object completes.
sstable_fetch_read(p, ok) == read(store, calls[p][1].path, None, ok)

\* sstable, lines 192-195: what fetch yields once its read completed: the
\* read's error as ObjectIoError, the decode's error, or the Sstable.
sstable_fetch_result(sst_id, buf) ==
    IF buf.kind /= "Ok"
    THEN object_io_error(buf.val.cause)
    ELSE LET meta == SstableMeta_decode(buf.val)
         IN  IF meta.kind /= "Ok" THEN meta
             ELSE Ok([id |-> sst_id, meta |-> meta.val])

\* sstable, line 201: an error of try_get_with becomes
\* HummockError::Other(e.to_string()).
sstable_result(r) ==
    IF r.kind = "Ok" THEN r ELSE Err("Other", to_string(r))

\* sstable, lines 198-201: the fetch try_get_with ran completes: the Sstable
\* is installed on success, and the Sstable or the error goes to the caller
\* that ran the fetch (unless it was cancelled meanwhile) and to every caller
\* waiting on the id.
sstable_fetch_done(p, ok) ==
    /\ pc[p] \in {"sst_fetch", "sst_detached"}
    /\ LET buf == sstable_fetch_read(p, ok)
           r == sstable_fetch_result(op[p].id, buf)
           served == (IF pc[p] = "sst_fetch" THEN {p} ELSE {}) \cup
                     SstWaiters(op[p].id)
       IN  /\ IF r.kind = "Ok"
              THEN meta_cache' \in meta_cache_insert(meta_cache, op[p].id, r.val,
                                                     meta_cache_capacity)
              ELSE UNCHANGED meta_cache
           /\ pc' = [q \in Callers |->
                        IF q \in served THEN "done"
                        ELSE IF q = p THEN "cancelled" ELSE pc[q]]
           /\ result' = [q \in Callers |->
                            IF q \in served THEN sstable_result(r) ELSE result[q]]
           /\ calls' = [calls EXCEPT ![p] = Completed(@, buf.kind = "Ok")]
    /\ UNCHANGED << store, block_cache, block_request_counts, op, cursor,
                    deleted_data >>
    /\ UNCHANGED_config

\* sstable, lines 198-200: the future of sstable is dropped at its await of
\* try_get_with.
sstable_cancel(p) ==
    /\ op[p].name = "sstable" /\ ~Ready(p) /\ pc[p] /= "sst_detached"
    /\ slot_future_dropped(p, "sst_fetch", "sst_detached")
    /\ UNCHANGED << store, block_cache, meta_cache, block_request_counts, op,
                    cursor, result, deleted_data >>
    /\ UNCHANGED_config

\* --------------------------------------------------- ColumnPruningContext
\* Option<T>
Some(v) == << v >>

\* An add_required_cols that replaces the lists recorded for the id.
add_required_cols_replaces(plan_node_id, required_cols) ==
    /\ Len(required_since_take[plan_node_id]) < MaxLists
    /\ share_required_cols_map' =
           MapPut(share_required_cols_map, plan_node_id, << required_cols >>)
    /\ required_cols_ret' =
           [call |-> "add_required_cols", id |-> plan_node_id,
            val |-> Len(share_required_cols_map'[plan_node_id])]
    /\ required_since_take' =
           [required_since_take EXCEPT ![plan_node_id] = Append(@, required_cols)]
    /\ UNCHANGED store_vars
    /\ UNCHANGED node_vars

\* add_required_cols, col_pruning.rs lines 73-84: entry(id).and_modify(push)
\* .or_insert_with(vec![cols]).len()
add_required_cols(plan_node_id, required_cols) ==
    /\ Len(required_since_take[plan_node_id]) < MaxLists
    /\ share_required_cols_map' =
           IF plan_node_id \in DOMAIN share_required_cols_map
           THEN [share_required_cols_map EXCEPT
                    ![plan_node_id] = Append(@, required_cols)]
           ELSE MapPut(share_required_cols_map, plan_node_id, << required_cols >>)
    /\ required_cols_ret' =
           [call |-> "add_required_cols", id |-> plan_node_id,
            val |-> Len(share_required_cols_map'[plan_node_id])]
    /\ required_since_take' =
           [required_since_take EXCEPT ![plan_node_id] = Append(@, required_cols)]
    /\ UNCHANGED store_vars
    /\ UNCHANGED node_vars

\* A take_required_cols that returns the lists and leaves them in the map.
take_required_cols_keeps(plan_node_id) ==
    /\ required_cols_ret' =
           [call |-> "take_required_cols", id |-> plan_node_id,
            val |-> IF plan_node_id \in DOMAIN share_required_cols_map
                    THEN Some(share_required_cols_map[plan_node_id])
                    ELSE None]
    /\ UNCHANGED share_required_cols_map
    /\ required_since_take' = [required_since_take EXCEPT ![plan_node_id] = << >>]
    /\ UNCHANGED store_vars
    /\ UNCHANGED node_vars

\* take_required_cols, col_pruning.rs lines 86-88:
\* share_required_cols_map.remove(&plan_node_id)
take_required_cols(plan_node_id) ==
    /\ required_cols_ret' =
           [call |-> "take_required_cols", id |-> plan_node_id,
            val |-> IF plan_node_id \in DOMAIN share_required_cols_map
                    THEN Some(share_required_cols_map[plan_node_id])
                    ELSE None]
    /\ share_required_cols_map' = MapRemove(share_required_cols_map, plan_node_id)
    /\ required_since_take' = [required_since_take EXCEPT ![plan_node_id] = << >>]
    /\ UNCHANGED store_vars
    /\ UNCHANGED node_vars

\* ------------------------------------------------------------- meta nodes
UNCHANGED_others == UNCHANGED store_vars /\ UNCHANGED pruning_vars

\* tests::setup_n_nodes, server.rs lines 250-281: n nodes are started with
\* rpc_serve_with_store on one meta store.
setup_n_nodes(n) ==
    /\ nodes = 1 .. n
    /\ NodesAsStarted

\* node_is_leader, lines 109-111: leader_rx.borrow().1
node_is_leader(n) == leader_status[n] = "leader"

\* run_elections (elections.rs): the election of node n campaigns; it takes
\* the lease when no node holds it.
election_campaign(n) ==
    /\ election[n] = "running" /\ lease = 0
    /\ lease' = n
    /\ UNCHANGED << nodes, election, leader_status, leader_rx_unseen, svc_pc,
                    follower, svc_shutdown >>
    /\ UNCHANGED_others

\* What the election of node n sends for the lease it sees.
StatusFor(n) == IF lease = n THEN "leader" ELSE "follower"

\* run_elections: the election of node n sends the leader it sees, and
\* whether that is this node, on leader_tx when it differs from what it sent
\* last; every receiver of the node then holds an unseen value.
election_notify(n) ==
    /\ election[n] = "running" /\ lease /= 0
    /\ leader_status[n] /= StatusFor(n)
    /\ leader_status' = [leader_status EXCEPT ![n] = StatusFor(n)]
    /\ leader_rx_unseen' = [leader_rx_unseen EXCEPT ![n] = TRUE]
    /\ UNCHANGED << nodes, lease, election, svc_pc, follower, svc_shutdown >>
    /\ UNCHANGED_others

\* The lease of a node whose election has stopped is not renewed and expires
\* (lease_interval_secs).
lease_expire ==
    /\ lease /= 0 /\ election[lease] = "stopped"
    /\ lease' = 0
    /\ UNCHANGED << nodes, election, leader_status, leader_rx_unseen, svc_pc,
                    follower, svc_shutdown >>
    /\ UNCHANGED_others

\* rpc_serve_with_store, lines 166-189: services_leader_rx.changed() resolves
\* with the first leader status; follower services are spawned unless the node
\* is leader.
svc_first_status(n) ==
    /\ svc_pc[n] = "wait_first" /\ leader_status[n] /= "unknown"
    /\ follower' = [follower EXCEPT ![n] = IF node_is_leader(n) THEN "none" ELSE "running"]
    /\ svc_pc' = [svc_pc EXCEPT ![n] = "loop"]
    /\ UNCHANGED << nodes, lease, election, leader_status, leader_rx_unseen,
                    svc_shutdown >>
    /\ UNCHANGED_others

\* lines 205-231, the node is leader: with follower services it sends
\* follower_shutdown_tx and awaits their handle, without it starts the leader
\* services.
svc_become_leader(n) ==
    IF follower[n] = "none"
    THEN /\ svc_pc' = [svc_pc EXCEPT ![n] = "leader_srv"]
         /\ UNCHANGED follower
    ELSE /\ svc_pc' = [svc_pc EXCEPT ![n] = "await_follower"]
         /\ follower' = [follower EXCEPT ![n] = IF @ = "running" THEN "signalled" ELSE @]

\* A loop that does not wait for the node to become leader.
svc_loop_no_wait(n) ==
    /\ svc_pc[n] = "loop"
    /\ svc_become_leader(n)
    /\ UNCHANGED << nodes, lease, election, leader_status, leader_rx_unseen,
                    svc_shutdown >>
    /\ UNCHANGED_others

\* line 192: while !node_is_leader(&leader_rx): the task enters the select
\* or leaves the loop.
svc_loop(n) ==
    /\ svc_pc[n] = "loop"
    /\ IF node_is_leader(n)
       THEN svc_become_leader(n)
       ELSE /\ svc_pc' = [svc_pc EXCEPT ![n] = "select"]
            /\ UNCHANGED follower
    /\ UNCHANGED << nodes, lease, election, leader_status, leader_rx_unseen,
                    svc_shutdown >>
    /\ UNCHANGED_others

\* A select whose branch leader_rx.changed() does not go back to the loop
\* condition.
svc_select_leader_changed_stays(n) ==
    /\ svc_pc[n] = "select" /\ leader_rx_unseen[n]
    /\ leader_rx_unseen' = [leader_rx_unseen EXCEPT ![n] = FALSE]
    /\ UNCHANGED << nodes, lease, election, leader_status, follower, svc_shutdown,
                    svc_pc >>
    /\ UNCHANGED_others

\* line 194: the branch leader_rx.changed() of the select.
svc_select_leader_changed(n) ==
    /\ svc_pc[n] = "select" /\ leader_rx_unseen[n]
    /\ leader_rx_unseen' = [leader_rx_unseen EXCEPT ![n] = FALSE]
    /\ svc_pc' = [svc_pc EXCEPT ![n] = "loop"]
    /\ UNCHANGED << nodes, lease, election, leader_status, follower, svc_shutdown >>
    /\ UNCHANGED_others

\* A select whose shutdown branch goes on to the leader services.
svc_select_shutdown_ignored(n) ==
    /\ svc_pc[n] = "select" /\ svc_shutdown[n]
    /\ svc_pc' = [svc_pc EXCEPT ![n] = "leader_srv"]
    /\ UNCHANGED << nodes, lease, election, leader_status, leader_rx_unseen,
                    follower, svc_shutdown >>
    /\ UNCHANGED_others

\* lines 195-201: the branch svc_shutdown_rx.changed() of the select: the
\* task returns, which drops election_shutdown and election_handle, and the
\* election of the node (run_elections) stops.
svc_select_shutdown(n) ==
    /\ svc_pc[n] = "select" /\ svc_shutdown[n]
    /\ svc_pc' = [svc_pc EXCEPT ![n] = "returned"]
    /\ election' = [election EXCEPT ![n] = "stopped"]
    /\ UNCHANGED << nodes, lease, leader_status, leader_rx_unseen, follower,
                    svc_shutdown >>
    /\ UNCHANGED_others

\* A task that starts the leader services without awaiting the handle of
\* the follower services.
svc_follower_not_awaited(n) ==
    /\ svc_pc[n] = "await_follower"
    /\ svc_pc' = [svc_pc EXCEPT ![n] = "leader_srv"]
    /\ UNCHANGED << nodes, lease, election, leader_status, leader_rx_unseen,
                    follower, svc_shutdown >>
    /\ UNCHANGED_others

\* lines 211-231: handle.await resolves, the follower services are down, and
\* start_leader_srv is called.
svc_follower_down(n) ==
    /\ svc_pc[n] = "await_follower" /\ follower[n] = "stopped"
    /\ svc_pc' = [svc_pc EXCEPT ![n] = "leader_srv"]
    /\ UNCHANGED << nodes, lease, election, leader_status, leader_rx_unseen,
                    follower, svc_shutdown >>
    /\ UNCHANGED_others

\* start_follower_srv (follower_svc.rs): the follower services stop when
\* follower_shutdown_rx or svc_shutdown_rx has a signal.
follower_srv_stop(n) ==
    /\ \/ follower[n] = "signalled"
       \/ follower[n] = "running" /\ svc_shutdown[n]
    /\ follower' = [follower EXCEPT ![n] = "stopped"]
    /\ UNCHANGED << nodes, lease, election, leader_status, leader_rx_unseen,
                    svc_pc, svc_shutdown >>
    /\ UNCHANGED_others

\* start_leader_srv (leader_svc.rs): on a signal of svc_shutdown_rx the leader
\* services stop the election through elect_coord and return; the service
\* task ends at line 231.
leader_srv_shutdown(n) ==
    /\ svc_pc[n] = "leader_srv" /\ svc_shutdown[n]
    /\ svc_pc' = [svc_pc EXCEPT ![n] = "leader_returned"]
    /\ election' = [election EXCEPT ![n] = "stopped"]
    /\ UNCHANGED << nodes, lease, leader_status, leader_rx_unseen, follower,
                    svc_shutdown >>
    /\ UNCHANGED_others

\* tests, lines 358, 407, 416: shutdown_tx.send(()) on the sender
\* rpc_serve_with_store returned for node n.
send_shutdown(n) ==
    /\ n \in nodes /\ ~svc_shutdown[n]
    /\ svc_shutdown' = [svc_shutdown EXCEPT ![n] = TRUE]
    /\ UNCHANGED << nodes, lease, election, leader_status, leader_rx_unseen,
                    svc_pc, follower >>
    /\ UNCHANGED_others

\* --------------------------------------------------------- specifications
\* The files whose blocks the callers write and get: the one of two blocks.
\* sstable opens every file.
BlockIds == {1}

\* The calls that write: put, delete_sst_data and put_sst_data_stream.
WriteCalls(p) ==
    \/ \E sst_id \in BlockIds, policy \in CachePolicy : put_begin(p, sst_id, policy)
    \/ \E ok \in BOOLEAN : put_data_done(p, ok)
    \/ \E ok \in BOOLEAN : put_meta_done(p, ok)
    \/ \E ok \in BOOLEAN : put_rollback_done(p, ok)
    \/ put_fill(p)
    \/ \E sst_id \in BlockIds : delete_sst_data_begin(p, sst_id)
    \/ \E ok \in BOOLEAN : delete_sst_data_done(p, ok)
    \/ \E sst_id \in BlockIds : put_sst_data_stream_begin(p, sst_id)
    \/ \E ok \in BOOLEAN : put_sst_data_stream_done(p, ok)

\* The calls that read: get and sstable.
ReadCalls(p) ==
    \/ \E sst_id \in BlockIds, block_index \in BlockIdxs, policy \in CachePolicy :
          get_begin(p, sst_id, block_index, policy)
    \/ \E ok \in BOOLEAN : get_fetch_done(p, ok)
    \/ \E ok \in BOOLEAN : get_fill_fetch_done(p, ok)
    \/ \E sst_id \in SstIds : sstable_begin(p, sst_id)
    \/ \E ok \in BOOLEAN : sstable_fetch_done(p, ok)

\* Writers: the callers interleave put, delete_sst_data and
\* put_sst_data_stream over a store constructed on an empty object store.
NextWrite == \E p \in Callers : WriteCalls(p)
SpecWrite == Init /\ [][NextWrite]_vars

\* The object of every file a put has written, data then meta.
Written(ids) ==
    [o \in {get_sst_data_path(i) : i \in ids} \cup {get_sst_meta_path(i) : i \in ids} |->
        IF \E i \in ids : o = get_sst_data_path(i)
        THEN DataOf(CHOOSE i \in ids : o = get_sst_data_path(i))
        ELSE encode_to_bytes(Sstable(CHOOSE i \in ids : o = get_sst_meta_path(i)).meta)]

\* SstableStore::new, with the small caches, over an object store that
\* earlier puts have written.
InitRead ==
    /\ store = Written(SstIds)
    /\ block_cache = << >>
    /\ meta_cache = << >>
    /\ block_cache_capacity = SmallCaches.block
    /\ meta_cache_capacity = SmallCaches.meta
    /\ block_request_counts = 0
    /\ pc = [p \in Callers |-> "idle"]
    /\ op = [p \in Callers |-> NoOp]
    /\ cursor = [p \in Callers |-> 0]
    /\ result = [p \in Callers |-> NoResult]
    /\ calls = [p \in Callers |-> << >>]
    /\ deleted_data = {}
    /\ ColumnPruningContext_new
    /\ NoNodes

\* Readers: the callers interleave get and sstable.
NextRead == \E p \in Callers : ReadCalls(p)
SpecRead == InitRead /\ [][NextRead]_vars

\* Seeding: the callers interleave put with Fill and NotFill, and get with
\* NotFill, over a store constructed on an empty object store.
NextSeed ==
    \E p \in Callers :
        \/ \E sst_id \in BlockIds, policy \in {"Fill", "NotFill"} :
              put_begin(p, sst_id, policy)
        \/ \E ok \in BOOLEAN : put_data_done(p, ok)
        \/ \E ok \in BOOLEAN : put_meta_done(p, ok)
        \/ \E ok \in BOOLEAN : put_rollback_done(p, ok)
        \/ put_fill(p)
        \/ \E sst_id \in BlockIds, block_index \in BlockIdxs :
              get_begin(p, sst_id, block_index, "NotFill")
        \/ \E ok \in BOOLEAN : get_fetch_done(p, ok)
SpecSeed == Init /\ [][NextSeed]_vars

\* Caching: the callers interleave the calls that insert into the caches,
\* put and get with Fill and sstable, over the small caches.
NextCache ==
    \E p \in Callers :
        \/ \E sst_id \in BlockIds : put_begin(p, sst_id, "Fill")
        \/ \E ok \in BOOLEAN : put_data_done(p, ok)
        \/ \E ok \in BOOLEAN : put_meta_done(p, ok)
        \/ \E ok \in BOOLEAN : put_rollback_done(p, ok)
        \/ put_fill(p)
        \/ \E sst_id \in BlockIds : get_begin(p, sst_id, 0, "Fill")
        \/ \E ok \in BOOLEAN : get_fill_fetch_done(p, ok)
        \/ \E sst_id \in SstIds : sstable_begin(p, sst_id)
        \/ \E ok \in BOOLEAN : sstable_fetch_done(p, ok)
SpecCache == InitRead /\ [][NextCache]_vars

\* Counting: the callers interleave get, with every policy, on an index in
\* range and on one past the end, with sstable and with put (which runs
\* put_sst_data, put_meta and, on its rollback, delete_sst_data).
NextCount ==
    \E p \in Callers :
        \/ \E sst_id \in BlockIds, block_index \in {0, 2}, policy \in CachePolicy :
              get_begin(p, sst_id, block_index, policy)
        \/ \E ok \in BOOLEAN : get_fetch_done(p, ok)
        \/ \E ok \in BOOLEAN : get_fill_fetch_done(p, ok)
        \/ \E sst_id \in BlockIds : sstable_begin(p, sst_id)
        \/ \E ok \in BOOLEAN : sstable_fetch_done(p, ok)
        \/ \E sst_id \in BlockIds : put_begin(p, sst_id, "NotFill")
        \/ \E ok \in BOOLEAN : put_data_done(p, ok)
        \/ \E ok \in BOOLEAN : put_meta_done(p, ok)
        \/ \E ok \in BOOLEAN : put_rollback_done(p, ok)
SpecCount == InitRead /\ [][NextCount]_vars

\* Deleting: the callers interleave delete_sst_data with the reads that fill
\* the caches, get with Fill and sstable.
NextDelete ==
    \E p \in Callers :
        \/ \E sst_id \in BlockIds : delete_sst_data_begin(p, sst_id)
        \/ \E ok \in BOOLEAN : delete_sst_data_done(p, ok)
        \/ \E sst_id \in BlockIds, block_index \in {0, 1} :
              get_begin(p, sst_id, block_index, "Fill")
        \/ \E ok \in BOOLEAN : get_fill_fetch_done(p, ok)
        \/ \E sst_id \in SstIds : sstable_begin(p, sst_id)
        \/ \E ok \in BOOLEAN : sstable_fetch_done(p, ok)
SpecDelete == InitRead /\ [][NextDelete]_vars

\* Cancelled puts: the callers interleave put, with every policy, and the
\* drop of a put at any of its awaits, over a store constructed on an empty
\* object store.
NextPutCancel ==
    \E p \in Callers :
        \/ \E sst_id \in BlockIds, policy \in CachePolicy : put_begin(p, sst_id, policy)
        \/ \E ok \in BOOLEAN : put_data_done(p, ok)
        \/ \E ok \in BOOLEAN : put_meta_done(p, ok)
        \/ \E ok \in BOOLEAN : put_rollback_done(p, ok)
        \/ put_fill(p)
        \/ put_cancel(p)
SpecPutCancel == Init /\ [][NextPutCancel]_vars

\* Cancelled reads: the callers interleave get and sstable with the drop of
\* either at its await.
NextFetchCancel ==
    \E p \in Callers :
        \/ \E sst_id \in BlockIds, policy \in CachePolicy :
              get_begin(p, sst_id, 0, policy)
        \/ \E ok \in BOOLEAN : get_fetch_done(p, ok)
        \/ \E ok \in BOOLEAN : get_fill_fetch_done(p, ok)
        \/ get_cancel(p)
        \/ \E sst_id \in BlockIds : sstable_begin(p, sst_id)
        \/ \E ok \in BOOLEAN : sstable_fetch_done(p, ok)
        \/ sstable_cancel(p)

\* The object store answers every read, with the bytes or with an error, and
\* the runtime runs the fetch of a slot to its end whether or not the caller
\* that started it is still there.
FetchesResolve ==
    \A p \in Callers :
        /\ WF_vars(\E ok \in BOOLEAN : get_fill_fetch_done(p, ok))
        /\ WF_vars(\E ok \in BOOLEAN : sstable_fetch_done(p, ok))
SpecFetchCancel == InitRead /\ [][NextFetchCancel]_vars /\ FetchesResolve

\* Every operation: the callers interleave put, put_sst_data_stream,
\* delete_sst_data and get on the file of two blocks with sstable on both
\* files, over an object store that earlier puts have written.
NextPaths ==
    \E p \in Callers :
        \/ \E sst_id \in BlockIds : put_begin(p, sst_id, "NotFill")
        \/ \E ok \in BOOLEAN : put_data_done(p, ok)
        \/ \E ok \in BOOLEAN : put_meta_done(p, ok)
        \/ \E ok \in BOOLEAN : put_rollback_done(p, ok)
        \/ \E sst_id \in BlockIds : put_sst_data_stream_begin(p, sst_id)
        \/ \E ok \in BOOLEAN : put_sst_data_stream_done(p, ok)
        \/ \E sst_id \in BlockIds : delete_sst_data_begin(p, sst_id)
        \/ \E ok \in BOOLEAN : delete_sst_data_done(p, ok)
        \/ \E sst_id \in BlockIds : get_begin(p, sst_id, 0, "Disable")
        \/ \E ok \in BOOLEAN : get_fetch_done(p, ok)
        \/ \E sst_id \in SstIds : sstable_begin(p, sst_id)
        \/ \E ok \in BOOLEAN : sstable_fetch_done(p, ok)
SpecPaths == InitRead /\ [][NextPaths]_vars

\* Seeding that fails: the callers interleave put with Fill of the files
\* whose data does not match their block metas, over a store constructed on
\* an empty object store.
NextSeedFail ==
    \E p \in Callers :
        \/ \E sst_id \in MismatchedIds : put_begin(p, sst_id, "Fill")
        \/ \E ok \in BOOLEAN : put_data_done(p, ok)
        \/ \E ok \in BOOLEAN : put_meta_done(p, ok)
        \/ \E ok \in BOOLEAN : put_rollback_done(p, ok)
        \/ put_fill(p)
SpecSeedFail == Init /\ [][NextSeedFail]_vars

\* SstableStore::new with the large caches, on an empty object store.
InitLargeStore ==
    /\ SstableStore_new
    /\ block_cache_capacity = LargeCaches.block
    /\ meta_cache_capacity = LargeCaches.meta
InitLarge ==
    /\ Init
    /\ block_cache_capacity = LargeCaches.block
    /\ meta_cache_capacity = LargeCaches.meta

\* Puts of every kind: the callers interleave put, with every policy, of the
\* file of two blocks, and put with Fill of the file whose data ends inside
\* its second block, over a store constructed on an empty object store whose
\* uploads may fail and whose deletes succeed.
NextPut ==
    \E p \in Callers :
        \/ \E sst_id \in BlockIds, policy \in CachePolicy : put_begin(p, sst_id, policy)
        \/ put_begin(p, 3, "Fill")
        \/ \E ok \in BOOLEAN : put_data_done(p, ok)
        \/ \E ok \in BOOLEAN : put_meta_done(p, ok)
        \/ put_rollback_done(p, TRUE)
        \/ put_fill(p)
SpecPut == InitLarge /\ [][NextPut]_vars

\* Slots: the callers interleave get with Fill of the first block of the
\* file of two blocks and sstable of both files, whose reads may fail, with
\* put with Fill of that file, whose uploads succeed, under the small caches.
NextSlots ==
    \E p \in Callers :
        \/ \E sst_id \in BlockIds : put_begin(p, sst_id, "Fill")
        \/ put_data_done(p, TRUE)
        \/ put_meta_done(p, TRUE)
        \/ put_fill(p)
        \/ \E sst_id \in BlockIds : get_begin(p, sst_id, 0, "Fill")
        \/ \E ok \in BOOLEAN : get_fill_fetch_done(p, ok)
        \/ \E sst_id \in SstIds : sstable_begin(p, sst_id)
        \/ \E ok \in BOOLEAN : sstable_fetch_done(p, ok)
SpecSlots == InitRead /\ [][NextSlots]_vars

\* Column pruning: the optimizer adds and takes required-column lists of the
\* plan node ids in any order.
NextPruning ==
    \/ \E plan_node_id \in PlanNodeIds, required_cols \in RequiredCols :
          add_required_cols(plan_node_id, required_cols)
    \/ \E plan_node_id \in PlanNodeIds : take_required_cols(plan_node_id)
SpecPruning == InitLarge /\ [][NextPruning]_vars

\* n meta nodes, 1 <= n <= NumNodes, are started on one meta store, with a
\* new sstable store and column pruning context beside them.
InitNodes ==
    /\ InitLargeStore
    /\ ColumnPruningContext_new
    /\ \E n \in 1 .. NumNodes : setup_n_nodes(n)

\* The steps the nodes take by themselves: elections, service tasks and
\* services.
NodeStep(n) ==
    \/ election_campaign(n)
    \/ election_notify(n)
    \/ svc_first_status(n)
    \/ svc_loop(n)
    \/ svc_select_leader_changed(n)
    \/ svc_select_shutdown(n)
    \/ svc_follower_down(n)
    \/ follower_srv_stop(n)
    \/ leader_srv_shutdown(n)

\* Meta nodes: the nodes run while shutdowns are sent to any of them at any
\* time.
NextNodes ==
    \/ \E n \in Nodes : NodeStep(n)
    \/ lease_expire
    \/ \E n \in Nodes : send_shutdown(n)
SpecNodes == InitNodes /\ [][NextNodes]_vars

\* The runtime runs every task that can take a step, and a lease that is not
\* renewed expires; when a shutdown is sent is up to the operator.
NodesProgress ==
    /\ \A n \in Nodes : WF_vars(NodeStep(n))
    /\ WF_vars(lease_expire)
SpecNodesFair == SpecNodes /\ NodesProgress

\* ----------------------------------------------------------------- claims
\* The calls of caller p's log that are `o` on `obj_path`, by index.
CallsOf(log, o, obj_path) ==
    {i \in 1 .. Len(log) : log[i].op = o /\ log[i].path = obj_path}
StatusOf(log, o, obj_path) == {log[i].status : i \in CallsOf(log, o, obj_path)}

\* Caller p's put has had its data / meta upload or its rollback delete
\* complete with `status`.
PutData(p, status) ==
    /\ op[p].name = "put"
    /\ status \in StatusOf(calls[p], "upload", get_sst_data_path(op[p].id))
PutMeta(p, status) ==
    /\ op[p].name = "put"
    /\ status \in StatusOf(calls[p], "upload", get_sst_meta_path(op[p].id))
PutDelete(p, status) ==
    /\ op[p].name = "put"
    /\ status \in StatusOf(calls[p], "delete", get_sst_data_path(op[p].id))

\* C1: within one put, every upload of the meta object comes after an upload
\* of the data object that returned successfully: no put has issued (let
\* alone completed) its meta upload while its data upload was pending or
\* had failed.
C1_MetaAfterData ==
    \A p \in Callers :
        op[p].name = "put" =>
            \A i \in CallsOf(calls[p], "upload", get_sst_meta_path(op[p].id)) :
                \E j \in 1 .. (i - 1) :
                    /\ calls[p][j].op = "upload"
                    /\ calls[p][j].path = get_sst_data_path(op[p].id)
                    /\ calls[p][j].status = "ok"

\* C1 witness: a put whose meta object became visible after its data upload.
C1_Witness ==
    \E p \in Callers :
        /\ PutData(p, "ok") /\ PutMeta(p, "ok")
        /\ get_sst_meta_path(op[p].id) \in DOMAIN store

\* Caller p's put returns in this step after its meta upload failed.
PutReturnsMetaFailed(p) ==
    /\ op[p].name = "put" /\ pc[p] /= "done" /\ pc'[p] = "done"
    /\ "err" \in StatusOf(calls'[p], "upload", get_sst_meta_path(op[p].id))

\* C2: a put whose data upload succeeded and whose meta upload failed
\* returns ObjectIoError having issued exactly one delete, that of its data
\* object, and when the delete succeeded the data object is absent from the
\* store as put returns.
C2_MetaFailureRollsBack ==
    [][\A p \in Callers :
          PutReturnsMetaFailed(p) =>
              LET log == calls'[p]
                  data_path == get_sst_data_path(op[p].id)
              IN  /\ "ok" \in StatusOf(log, "upload", data_path)
                  /\ {i \in 1 .. Len(log) : log[i].op = "delete"} =
                         CallsOf(log, "delete", data_path)
                  /\ Cardinality(CallsOf(log, "delete", data_path)) = 1
                  /\ result'[p].kind = "ObjectIoError"
                  /\ "ok" \in StatusOf(log, "delete", data_path) =>
                         data_path \notin DOMAIN store']_vars

\* C2 witness: a put returned after its meta upload failed and its rollback
\* delete succeeded, and its data object is gone.
C2_Witness ==
    \E p \in Callers :
        /\ pc[p] = "done"
        /\ PutData(p, "ok") /\ PutMeta(p, "err") /\ PutDelete(p, "ok")
        /\ result[p].kind = "ObjectIoError"
        /\ get_sst_data_path(op[p].id) \notin DOMAIN store

\* C3: a put whose meta upload failed and whose rollback delete failed too
\* returns the meta upload's error, not the delete's, and leaves the data
\* object in the store.
C3_MetaErrorIsPrimary ==
    [][\A p \in Callers :
          (PutReturnsMetaFailed(p) /\
           "err" \in StatusOf(calls'[p], "delete", get_sst_data_path(op[p].id))) =>
              /\ result'[p] = object_io_error("upload meta failed")
              /\ get_sst_data_path(op[p].id) \in DOMAIN store']_vars

\* C4: whenever the meta object of an id exists, so does its data object.
C4_MetaImpliesData ==
    \A sst_id \in SstIds :
        get_sst_meta_path(sst_id) \in DOMAIN store =>
            get_sst_data_path(sst_id) \in DOMAIN store

\* C4 as amended: whenever the meta object of an id exists, so does its data
\* object, for every id whose data object no delete (delete_sst_data or the
\* rollback of a put) has removed.
C4_MetaImpliesDataUnlessDeleted ==
    \A sst_id \in SstIds \ deleted_data :
        get_sst_meta_path(sst_id) \in DOMAIN store =>
            get_sst_data_path(sst_id) \in DOMAIN store

\* C4 witness: a put has written the meta object of an id no delete touched,
\* while another call on that id is under way or has returned.
C4_Witness ==
    \E p, q \in Callers :
        /\ p /= q /\ op[p].id = op[q].id /\ op[p].id \notin deleted_data
        /\ pc[p] = "done" /\ PutMeta(p, "ok")
        /\ op[q].name \in {"put", "put_sst_data_stream"}
        /\ "err" \in {calls[q][i].status : i \in 1 .. Len(calls[q])}
        /\ get_sst_meta_path(op[p].id) \in DOMAIN store

\* C5: a put whose data upload fails returns ObjectIoError in that step,
\* having issued no meta upload and no delete (the failed upload is its only
\* call), and leaves the block cache as it was.
C5_DataFailureReturns ==
    [][\A p \in Callers :
          (pc[p] = "put_data" /\ pc'[p] /= "put_data" /\
           calls'[p][1].status = "err") =>
              /\ pc'[p] = "done"
              /\ result'[p].kind = "ObjectIoError"
              /\ Len(calls'[p]) = 1
              /\ block_cache' = block_cache]_vars

\* C5 witness: a put returned on its failed data upload while the block
\* cache holds blocks.
C5_Witness ==
    \E p \in Callers :
        /\ pc[p] = "done" /\ PutData(p, "err")
        /\ result[p].kind = "ObjectIoError"
        /\ Len(calls[p]) = 1
        /\ block_cache /= << >>

\* The keys of the blocks the files hold.
BlockKeys ==
    {BlockKey(i, b) : i \in SstIds, b \in BlockIdxs} \cap
    {k \in SstIds \X BlockIdxs : k[2] < Len(block_metas(k[1]))}

\* The callers whose get on key, respectively sstable on sst_id, has not
\* returned yet.
GetsOn(key) ==
    {q \in Callers :
        op[q].name = "get" /\ BlockKey(op[q].id, op[q].idx) = key /\ ~Ready(q)}
SstablesOn(sst_id) ==
    {q \in Callers : op[q].name = "sstable" /\ op[q].id = sst_id /\ ~Ready(q)}
FillGetsOn(key) == {q \in GetsOn(key) : op[q].policy = "Fill"}

\* The reads a log holds, and those of them that have not completed.
ReadsOf(log) == {i \in 1 .. Len(log) : log[i].op = "read"}
PendingReadsOf(log) == {i \in ReadsOf(log) : log[i].status = "pending"}

\* C6: the get(.., Fill) calls that are under way on one key at the same
\* time (each started while the key was absent from the block cache) have
\* issued one ranged read between them, and when one of them returns they
\* all return, with the same result.
C6_FillGetsShareOneRead ==
    /\ [](\A key \in BlockKeys :
            FillGetsOn(key) /= {} =>
                SumOver([q \in Callers |-> Cardinality(ReadsOf(calls[q]))],
                        FillGetsOn(key)) = 1)
    /\ [][\A key \in BlockKeys : \A p \in FillGetsOn(key) :
             pc'[p] = "done" =>
                 \A q \in FillGetsOn(key) :
                     pc'[q] = "done" /\ result'[q] = result'[p]]_vars

\* C6 witness: callers run get(.., Fill) on one absent key at the same time,
\* one of them reading and every other waiting for that read.
C6_Witness ==
    \E key \in BlockKeys :
        /\ key \notin DOMAIN block_cache
        /\ FillGetsOn(key) = Callers
        /\ \E p \in Callers :
              /\ Cardinality(PendingReadsOf(calls[p])) = 1
              /\ \A q \in Callers \ {p} : pc[q] = "wait" /\ calls[q] = << >>

\* The callers with a fetch outstanding on the object store for a block
\* key, respectively for the meta of sst_id.
OutstandingBlockFetches(key) == {q \in GetsOn(key) : PendingReadsOf(calls[q]) /= {}}
OutstandingSstFetches(sst_id) == {q \in SstablesOn(sst_id) : PendingReadsOf(calls[q]) /= {}}

\* C7: at most one fetch is outstanding per cache key, whatever the policies
\* of the get calls.
C7_OneFetchPerKey ==
    /\ \A key \in BlockKeys : Cardinality(OutstandingBlockFetches(key)) <= 1
    /\ \A sst_id \in SstIds : Cardinality(OutstandingSstFetches(sst_id)) <= 1

\* C7 as amended: at most one fetch is outstanding per cache key among the
\* fetches of get with policy Fill and of sstable; the fetches of get with
\* NotFill and Disable are not coalesced.
C7_OneCoalescedFetchPerKey ==
    /\ \A key \in BlockKeys :
          Cardinality({q \in OutstandingBlockFetches(key) : op[q].policy = "Fill"}) <= 1
    /\ \A sst_id \in SstIds : Cardinality(OutstandingSstFetches(sst_id)) <= 1

\* C7 witness: an sstable fetch is outstanding and every other caller waits
\* on it.
C7_Witness ==
    \E sst_id \in SstIds :
        /\ SstablesOn(sst_id) = Callers
        /\ Cardinality(OutstandingSstFetches(sst_id)) = 1
        /\ sst_id \notin DOMAIN meta_cache

\* Caller p's read completes in this step with an error.
ReadFails(p) ==
    /\ PendingReadsOf(calls[p]) /= {}
    /\ calls'[p][1].status = "err"

\* C8: when the read of a get(.., Fill) or of an sstable fails, every caller
\* under way on the key returns the same error in that step, the caches are
\* left as they were, and a get(.., Fill) or sstable that starts on a key
\* that is not cached and has no fetch in flight issues a read of its own.
C8_FailedFetchNotCached ==
    [][/\ \A key \in BlockKeys : \A p \in FillGetsOn(key) :
             ReadFails(p) =>
                 /\ result'[p].kind \notin {"Ok", "None"}
                 /\ \A q \in FillGetsOn(key) :
                       pc'[q] = "done" /\ result'[q] = result'[p]
                 /\ block_cache' = block_cache
                 /\ key \notin DOMAIN block_cache'
       /\ \A sst_id \in SstIds : \A p \in SstablesOn(sst_id) :
             ReadFails(p) =>
                 /\ result'[p].kind \notin {"Ok", "None"}
                 /\ \A q \in SstablesOn(sst_id) :
                       pc'[q] = "done" /\ result'[q] = result'[p]
                 /\ meta_cache' = meta_cache
                 /\ sst_id \notin DOMAIN meta_cache'
       /\ \A p \in Callers :
             (Ready(p) /\ ~Ready(p)' /\ op'[p].name = "get" /\
              op'[p].policy = "Fill" /\
              FillGetsOn(BlockKey(op'[p].id, op'[p].idx)) = {}) =>
                 Cardinality(PendingReadsOf(calls'[p])) = 1
       /\ \A p \in Callers :
             (Ready(p) /\ ~Ready(p)' /\ op'[p].name = "sstable" /\
              SstablesOn(op'[p].id) = {}) =>
                 Cardinality(PendingReadsOf(calls'[p])) = 1]_vars

\* C8 witness: a caller's get(.., Fill) starts a read of a key on which
\* another's get(.., Fill) returned a read error, the key still uncached.
C8_Witness ==
    \E p, q \in Callers :
        /\ p /= q
        /\ op[p].name = "get" /\ op[p].policy = "Fill" /\ pc[p] = "done"
        /\ calls[p] /= << >> /\ calls[p][1].status = "err"
        /\ result[p].kind = "ObjectIoError"
        /\ q \in FillGetsOn(BlockKey(op[p].id, op[p].idx))
        /\ Cardinality(PendingReadsOf(calls[q])) = 1
        /\ BlockKey(op[p].id, op[p].idx) \notin DOMAIN block_cache

\* The block of index block_idx that put seeds from the data of sst_id.
SeededBlock(sst_id, block_idx) ==
    Block_decode(Slice(DataOf(sst_id), block_metas(sst_id)[block_idx + 1].offset,
                       block_metas(sst_id)[block_idx + 1].len))

\* The weight of the blocks of every file: a block cache of this capacity
\* evicts nothing.
AllBlocksWeight ==
    SumOver([k \in BlockKeys |-> block_metas(k[1])[k[2] + 1].len], BlockKeys)

\* The ids whose put with Fill some caller has seen return Ok.
Seeded ==
    {op[p].id : p \in {q \in Callers :
        /\ op[q].name = "put" /\ op[q].policy = "Fill"
        /\ pc[q] = "done" /\ result[q].kind = "Ok"}}

\* C9: with a block cache whose capacity holds the blocks (no insert
\* evicts), once a put(sst, data, Fill) has returned Ok every block index of
\* sst is in the block cache with the decode of its slice of data, and a
\* get(sst, i, NotFill) that starts then returns that block in the same step
\* without a call on the object store.
C9_FillSeedsEveryBlock ==
    /\ [](block_cache_capacity >= AllBlocksWeight =>
            \A key \in BlockKeys :
                key[1] \in Seeded =>
                    /\ key \in DOMAIN block_cache
                    /\ Ok(block_cache[key]) = SeededBlock(key[1], key[2]))
    /\ [][block_cache_capacity >= AllBlocksWeight =>
            \A p \in Callers :
                (Ready(p) /\ op'[p] /= op[p] /\ op'[p].name = "get" /\
                 op'[p].policy = "NotFill" /\ op'[p].id \in Seeded /\
                 BlockKey(op'[p].id, op'[p].idx) \in BlockKeys) =>
                    /\ pc'[p] = "done"
                    /\ result'[p] = SeededBlock(op'[p].id, op'[p].idx)
                    /\ calls'[p] = << >>]_vars

\* C9 witness: a put(sst, data, Fill) of the file of two blocks returned Ok,
\* and a get(sst, 1, NotFill) returned its second block with no read.
C9_Witness ==
    \E p, q \in Callers :
        /\ block_cache_capacity >= AllBlocksWeight
        /\ op[p].name = "put" /\ op[p].policy = "Fill" /\ op[p].id = 1
        /\ pc[p] = "done" /\ result[p].kind = "Ok"
        /\ op[q].name = "get" /\ op[q].policy = "NotFill" /\ op[q].id = 1
        /\ op[q].idx = 1 /\ pc[q] = "done" /\ calls[q] = << >>
        /\ result[q] = Ok([data |-> << "B", "B" >>])

\* Caller p takes a step of a get with NotFill.
NotFillStep(p) ==
    /\ op'[p].name = "get" /\ op'[p].policy = "NotFill"
    /\ << pc[p], op[p], result[p], calls[p] >> /=
           << pc'[p], op'[p], result'[p], calls'[p] >>

\* C10: no step of a get(.., NotFill) changes the block cache, and on a miss
\* the block its read fetched is returned to the caller.
C10_NotFillLeavesCache ==
    [][\A p \in Callers :
          NotFillStep(p) =>
              /\ block_cache' = block_cache
              /\ (PendingReadsOf(calls[p]) /= {} /\ calls'[p][1].status = "ok") =>
                     /\ pc'[p] = "done"
                     /\ result'[p] =
                            Block_decode(Slice(store[calls[p][1].path],
                                               calls[p][1].range[1],
                                               calls[p][1].range[2]))]_vars

\* C10 witness: a get(.., NotFill) returned the block it fetched on a miss
\* and the key is not in the block cache.
C10_Witness ==
    \E p \in Callers :
        /\ op[p].name = "get" /\ op[p].policy = "NotFill" /\ pc[p] = "done"
        /\ calls[p] /= << >> /\ calls[p][1].status = "ok"
        /\ result[p].kind = "Ok"
        /\ BlockKey(op[p].id, op[p].idx) \notin DOMAIN block_cache

\* Caller p takes a step: it starts a call, or its call moves on or returns.
CallerStep(p) ==
    << pc[p], op[p], result[p], calls[p] >> /=
        << pc'[p], op'[p], result'[p], calls'[p] >>
\* Caller p starts a call named `name` in this step.
Starts(p, name) == Ready(p) /\ CallerStep(p) /\ op'[p].name = name
\* Index idx is one of the blocks of sst_id.
InRange(sst_id, idx) == idx < Len(block_metas(sst_id))
\* What a fetch of the block of `call` yields when its read completes with
\* `status`: the decode of the block's bytes in the data object.
Fetched(call, status) ==
    IF status = "ok"
    THEN Block_decode(Slice(store[get_sst_data_path(call.id)],
                            block_metas(call.id)[call.idx + 1].offset,
                            block_metas(call.id)[call.idx + 1].len))
    ELSE object_io_error("read failed")

\* C11: a get(.., Disable) on an in-range index issues, when it starts, one
\* ranged read of [offset, offset + len) on the data object, whether or not
\* the block is cached; it returns what that read fetched with that read as
\* its only call on the object store, and none of its steps changes the
\* block cache.  Every such call has a read of its own, so a second
\* identical call issues a second read.
C11_DisableAlwaysReads ==
    [][\A p \in Callers :
          /\ (Starts(p, "get") /\ op'[p].policy = "Disable" /\
               InRange(op'[p].id, op'[p].idx)) =>
                  /\ ~Ready(p)'
                  /\ calls'[p] =
                        << Call("read", get_sst_data_path(op'[p].id),
                                BlockLocation(
                                    block_metas(op'[p].id)[op'[p].idx + 1].offset,
                                    block_metas(op'[p].id)[op'[p].idx + 1].len)) >>
          /\ (~Ready(p) /\ CallerStep(p) /\ op[p].name = "get" /\
               op[p].policy = "Disable") =>
                  /\ pc'[p] = "done"
                  /\ Len(calls'[p]) = 1
                  /\ calls'[p][1].status /= "pending"
                  /\ result'[p] = Fetched(op[p], calls'[p][1].status)
          /\ (CallerStep(p) /\ op'[p].name = "get" /\ op'[p].policy = "Disable") =>
                  block_cache' = block_cache]_vars

\* C11 witness: a get(.., Disable) returned the block of its one read while
\* that block was in the block cache.
C11_Witness ==
    \E p \in Callers :
        /\ op[p].name = "get" /\ op[p].policy = "Disable" /\ pc[p] = "done"
        /\ Len(calls[p]) = 1 /\ calls[p][1].status = "ok"
        /\ result[p].kind = "Ok"
        /\ BlockKey(op[p].id, op[p].idx) \in DOMAIN block_cache

\* C12: when a get(.., Fill) returns Ok (from a hit, from its own fetch or
\* from a fetch it waited for), the key is in the block cache with the block
\* returned; and a get with Fill or NotFill that starts while the key is in
\* the block cache returns the cached block in that step with no call on the
\* object store.  Every block fits in the capacities of the model.
C12_FillLeavesKeyCached ==
    [][\A p \in Callers :
          /\ (CallerStep(p) /\ op'[p].name = "get" /\ op'[p].policy = "Fill" /\
               pc'[p] = "done" /\ result'[p].kind = "Ok") =>
                  /\ BlockKey(op'[p].id, op'[p].idx) \in DOMAIN block_cache'
                  /\ block_cache'[BlockKey(op'[p].id, op'[p].idx)] = result'[p].val
          /\ (Starts(p, "get") /\ op'[p].policy \in {"Fill", "NotFill"} /\
               BlockKey(op'[p].id, op'[p].idx) \in DOMAIN block_cache) =>
                  /\ pc'[p] = "done"
                  /\ calls'[p] = << >>
                  /\ result'[p] = Ok(block_cache[BlockKey(op'[p].id, op'[p].idx)])]_vars

\* C12 witness: a get(.., Fill) returned the block it fetched, and a
\* get(.., NotFill) on the same key then returned that block with no read.
C12_Witness ==
    \E p, q \in Callers :
        /\ op[p].name = "get" /\ op[p].policy = "Fill" /\ pc[p] = "done"
        /\ Len(calls[p]) = 1 /\ calls[p][1].status = "ok"
        /\ result[p].kind = "Ok"
        /\ op[q].name = "get" /\ op[q].policy = "NotFill" /\ pc[q] = "done"
        /\ op[q].id = op[p].id /\ op[q].idx = op[p].idx
        /\ calls[q] = << >> /\ result[q] = result[p]
        /\ block_cache[BlockKey(op[p].id, op[p].idx)] = result[p].val

\* C13: a get on an index past the block metas of sst returns InvalidBlock in
\* the step that starts it, with no call on the object store and the block
\* cache left as it was, whatever the policy.
C13_OutOfRangeIsInvalidBlock ==
    [][\A p \in Callers :
          (Starts(p, "get") /\ ~InRange(op'[p].id, op'[p].idx)) =>
              /\ pc'[p] = "done"
              /\ result'[p] = invalid_block
              /\ calls'[p] = << >>
              /\ block_cache' = block_cache]_vars

\* C13 witness: two gets past the end, one with Fill and one with NotFill or
\* Disable, returned InvalidBlock with no read.
C13_Witness ==
    \E p, q \in Callers :
        /\ op[p].name = "get" /\ op[p].policy = "Fill"
        /\ op[q].name = "get" /\ op[q].policy \in {"NotFill", "Disable"}
        /\ \A r \in {p, q} :
              /\ ~InRange(op[r].id, op[r].idx)
              /\ pc[r] = "done" /\ result[r] = invalid_block
              /\ calls[r] = << >>

\* C16: sstable reads the meta object only on a miss.  The sstable calls
\* under way on one id hold one read between them; a call that starts on a
\* cached id returns the cached Sstable with no read, one that starts while a
\* fetch of the id is in flight joins it with no read, and one that starts on
\* an id that is neither cached nor being fetched (never installed, or
\* evicted by weight) issues one full read of the meta object; a call that
\* returns Ok leaves the id installed with the Sstable returned.
C16_MetaReadOnlyOnMiss ==
    /\ [](\A sst_id \in SstIds :
            SstablesOn(sst_id) /= {} =>
                SumOver([q \in Callers |-> Cardinality(ReadsOf(calls[q]))],
                        SstablesOn(sst_id)) = 1)
    /\ [][\A p \in Callers :
             /\ Starts(p, "sstable") =>
                   IF op'[p].id \in DOMAIN meta_cache
                   THEN /\ pc'[p] = "done"
                        /\ calls'[p] = << >>
                        /\ result'[p] = Ok(meta_cache[op'[p].id])
                   ELSE IF SstablesOn(op'[p].id) /= {}
                   THEN ~Ready(p)' /\ calls'[p] = << >>
                   ELSE /\ ~Ready(p)'
                        /\ calls'[p] =
                              << Call("read", get_sst_meta_path(op'[p].id), None) >>
             /\ (CallerStep(p) /\ op'[p].name = "sstable" /\ pc'[p] = "done" /\
                  result'[p].kind = "Ok") =>
                   /\ op'[p].id \in DOMAIN meta_cache'
                   /\ meta_cache'[op'[p].id] = result'[p].val]_vars

\* C16 witness: an sstable call hit the cache on an id, and another caller
\* now re-fetches that id with one read: no fetch of the id can have been
\* installed while this one is in flight, so the entry the first call hit
\* was evicted before the re-fetch started.
C16_Witness ==
    \E p, q \in Callers :
        /\ op[p].name = "sstable" /\ pc[p] = "done"
        /\ calls[p] = << >> /\ result[p].kind = "Ok"
        /\ q \in SstablesOn(op[p].id)
        /\ Cardinality(PendingReadsOf(calls[q])) = 1
        /\ op[p].id \notin DOMAIN meta_cache
        /\ meta_cache /= << >>

\* C17: a put, get or sstable that met a failure of the object store returns
\* ObjectIoError wrapping the cause of a failed call, having issued no call
\* twice.
C17_IoFailureIsObjectIoError ==
    \A p \in Callers :
        (/\ pc[p] = "done" /\ op[p].name \in {"put", "get", "sstable"}
         /\ \E i \in 1 .. Len(calls[p]) : calls[p][i].status = "err") =>
            /\ result[p].kind = "ObjectIoError"
            /\ \A i, j \in 1 .. Len(calls[p]) :
                  (calls[p][i].op = calls[p][j].op /\
                   calls[p][i].path = calls[p][j].path) => i = j

\* C14: the request counter goes up by one in the step that starts a get,
\* whatever the policy and whatever the call finds (a hit, a fetch in flight
\* to wait for, a miss to read, an index past the end), and by nothing in any
\* other step: no later step of a get, whatever its outcome (the block, an
\* I/O error), and no step of sstable or put changes it.
C14_CounterCountsGets ==
    [][/\ block_request_counts' \in
              {block_request_counts, block_request_counts + 1}
       /\ block_request_counts' /= block_request_counts =>
              \E p \in Callers :
                  /\ Ready(p) /\ op'[p].name = "get" /\ pc'[p] /= "idle"
                  /\ \A q \in Callers \ {p} : ~CallerStep(q)
       /\ \A p \in Callers :
              /\ Starts(p, "get") =>
                    block_request_counts' = block_request_counts + 1
              /\ (CallerStep(p) /\ ~Starts(p, "get")) =>
                    block_request_counts' = block_request_counts]_vars

\* C14 witness: two gets were counted, the later of them ended in an I/O
\* error, and the other caller has since run another operation to its end.
C14_Witness ==
    /\ block_request_counts = 2
    /\ \E p, q \in Callers :
          /\ op[p].name = "get" /\ pc[p] = "done"
          /\ result[p].kind = "ObjectIoError"
          /\ op[q].name \in {"put", "sstable"}
          /\ pc[q] = "done"

\* The weight the entries of each cache sum to.
BlockCacheWeight ==
    SumOver([k \in DOMAIN block_cache |-> block_weight(block_cache[k])],
            DOMAIN block_cache)
MetaCacheWeight ==
    SumOver([i \in DOMAIN meta_cache |-> encoded_size(meta_cache[i])],
            DOMAIN meta_cache)

\* C15: in every state the blocks of the block cache weigh no more than
\* block_cache_capacity together and the Sstables of the meta cache no more
\* than meta_cache_capacity (the caches evict in the insert, so the bound
\* holds with no slack).
C15_CacheWeightBounded ==
    /\ BlockCacheWeight <= block_cache_capacity
    /\ MetaCacheWeight <= meta_cache_capacity

\* C15 witness: inserts went beyond both capacities: a put with Fill seeded
\* its two blocks and one is left, and an sstable returned an Sstable that the
\* meta cache has since evicted for the other.
C15_Witness ==
    \E p, q \in Callers :
        /\ op[p].name = "put" /\ op[p].policy = "Fill" /\ pc[p] = "done"
        /\ result[p].kind = "Ok"
        /\ Cardinality(DOMAIN block_cache) = 1
        /\ BlockCacheWeight = block_cache_capacity
        /\ op[q].name = "sstable" /\ pc[q] = "done" /\ result[q].kind = "Ok"
        /\ DOMAIN meta_cache = SstIds \ {op[q].id}

\* C20: delete_sst_data(sst_id) issues one delete, on the data object of
\* sst_id, as its only call on the object store; its steps leave both caches
\* and every object but that data object as they were; and once the data
\* object is gone a get with Fill on a cached block of sst_id and an sstable
\* on the cached sst_id still return the cached value.
C20_DeleteTouchesOnlyData ==
    [][\A p \in Callers :
          /\ Starts(p, "delete_sst_data") =>
                /\ calls'[p] =
                      << Call("delete", get_sst_data_path(op'[p].id), None) >>
                /\ store' = store
          /\ (~Ready(p) /\ CallerStep(p) /\ op[p].name = "delete_sst_data") =>
                /\ pc'[p] = "done"
                /\ Len(calls'[p]) = 1
                /\ DOMAIN store' \subseteq DOMAIN store
                /\ \A o \in DOMAIN store \ {get_sst_data_path(op[p].id)} :
                      o \in DOMAIN store' /\ store'[o] = store[o]
                /\ calls'[p][1].status = "ok" =>
                      get_sst_data_path(op[p].id) \notin DOMAIN store'
          /\ (CallerStep(p) /\ op'[p].name = "delete_sst_data") =>
                block_cache' = block_cache /\ meta_cache' = meta_cache
          /\ (Starts(p, "get") /\
               get_sst_data_path(op'[p].id) \notin DOMAIN store /\
               BlockKey(op'[p].id, op'[p].idx) \in DOMAIN block_cache) =>
                result'[p] = Ok(block_cache[BlockKey(op'[p].id, op'[p].idx)])
          /\ (Starts(p, "sstable") /\
               get_sst_data_path(op'[p].id) \notin DOMAIN store /\
               op'[p].id \in DOMAIN meta_cache) =>
                result'[p] = Ok(meta_cache[op'[p].id])]_vars

\* C20 witness: a delete_sst_data removed the data object of an id whose
\* meta object, cached block and cached Sstable are all still there, with the
\* objects of the other id.
C20_Witness ==
    \E p \in Callers :
        /\ op[p].name = "delete_sst_data" /\ pc[p] = "done"
        /\ calls[p][1].status = "ok"
        /\ get_sst_data_path(op[p].id) \notin DOMAIN store
        /\ get_sst_meta_path(op[p].id) \in DOMAIN store
        /\ \E b \in BlockIdxs : BlockKey(op[p].id, b) \in DOMAIN block_cache
        /\ op[p].id \in DOMAIN meta_cache
        /\ \A i \in SstIds \ {op[p].id} :
              {get_sst_data_path(i), get_sst_meta_path(i)} \subseteq DOMAIN store

\* The log of a put that was dropped while it awaited its meta upload: the
\* data upload succeeded, the meta upload was dropped, nothing else was called.
OrphaningPutLog(sst_id) ==
    << [Call("upload", get_sst_data_path(sst_id), None) EXCEPT !.status = "ok"],
       [Call("upload", get_sst_meta_path(sst_id), None) EXCEPT !.status = "dropped"] >>

\* C19: a put cancelled after its data upload completed and before its meta
\* upload completed changes nothing in the object store (the data object it
\* uploaded stays, unless another caller's delete removed it; the meta upload
\* is dropped and writes no object), calls no rollback delete (its calls are
\* exactly the data upload and the dropped meta upload), and inserts nothing
\* into the block cache.
C19_CancelledPutOrphansData ==
    [][\A p \in Callers :
          (pc[p] = "put_meta" /\ pc'[p] = "cancelled") =>
              /\ store' = store
              /\ \/ get_sst_data_path(op[p].id) \in DOMAIN store'
                 \/ op[p].id \in deleted_data
              /\ calls'[p] = OrphaningPutLog(op[p].id)
              /\ block_cache' = block_cache]_vars

\* C19 witness: a put with policy Fill was cancelled between its two uploads;
\* its data object is in the store, no meta object is, and the block cache
\* is empty.
C19_Witness ==
    \E p \in Callers :
        /\ pc[p] = "cancelled" /\ op[p].name = "put" /\ op[p].policy = "Fill"
        /\ calls[p] = OrphaningPutLog(op[p].id)
        /\ get_sst_data_path(op[p].id) \in DOMAIN store
        /\ get_sst_meta_path(op[p].id) \notin DOMAIN store
        /\ DOMAIN block_cache = {}

\* A caller that waits on a slot whose leader was cancelled mid-fetch: no
\* caller that leads a fetch of the key is still there.
WaitsOnCancelledLeader(q) ==
    \/ /\ pc[q] = "wait"
       /\ \A p \in Callers :
              ~(pc[p] = "fill_fetch" /\ op[p].id = op[q].id /\ op[p].idx = op[q].idx)
    \/ /\ pc[q] = "sst_wait"
       /\ \A p \in Callers : ~(pc[p] = "sst_fetch" /\ op[p].id = op[q].id)

\* The call of q is over: it returned a result (a value or an error), or q
\* itself was cancelled.
Returned(q) ==
    \/ pc[q] = "done" /\ result[q] /= NoResult
    \/ pc[q] = "cancelled"

PathIds == 0 .. 21

\* The path functions are injective and their ranges are disjoint.
PathsNeverCollide ==
    \A a, b \in PathIds :
        /\ get_sst_meta_path(a) /= get_sst_data_path(b)
        /\ a /= b => /\ get_sst_meta_path(a) /= get_sst_meta_path(b)
                     /\ get_sst_data_path(a) /= get_sst_data_path(b)

\* C21: a meta path never equals a data path, distinct ids give distinct meta
\* paths and distinct data paths, and every call an operation makes on the
\* object store targets the meta path or the data path of the id passed to
\* that operation.
C21_PathDiscipline ==
    /\ PathsNeverCollide
    /\ \A p \in Callers : \A i \in 1 .. Len(calls[p]) :
          calls[p][i].path \in
              {get_sst_meta_path(op[p].id), get_sst_data_path(op[p].id)}

\* C21 witness: one caller's put of file 1 has uploaded both objects while
\* another caller reads the meta object of file 2.
C21_Witness ==
    \E p, q \in Callers :
        /\ op[p].name = "put" /\ op[p].id = 1 /\ PutData(p, "ok") /\ PutMeta(p, "ok")
        /\ op[q].name = "sstable" /\ op[q].id = 2
        /\ "pending" \in StatusOf(calls[q], "read", get_sst_meta_path(2))

\* The log of a put whose two uploads succeeded and that called nothing else.
UploadedPutLog(sst_id) ==
    << [Call("upload", get_sst_data_path(sst_id), None) EXCEPT !.status = "ok"],
       [Call("upload", get_sst_meta_path(sst_id), None) EXCEPT !.status = "ok"] >>

\* Block `block_idx` of the file cannot be seeded from the data passed to
\* put: the data ends before the end of the block, or its slice fails to
\* decode.
Unseedable(sst_id, block_idx) ==
    LET meta == block_metas(sst_id)[block_idx + 1]
    IN  \/ meta.offset + meta.len > Len(DataOf(sst_id))
        \/ SeededBlock(sst_id, block_idx).kind /= "Ok"

\* The weight of the blocks of the mismatched files that can be seeded: a
\* block cache of this capacity evicts none of them.
SeedableWeight ==
    SumOver([i \in MismatchedIds |-> block_metas(i)[1].len], MismatchedIds)

\* C26: a put with Fill panics, and returns no error, exactly when it comes
\* to a block it cannot seed; this happens only after both uploads have
\* succeeded: the step changes nothing in the object store, the put has
\* called no delete, its meta object is in the store and so is its data
\* object unless another put's rollback deleted it, and (when the block cache
\* holds the seeded blocks without evicting) the blocks of smaller index are
\* in the block cache.
C26_UnseedableBlockPanics ==
    [][\A p \in Callers :
          /\ (pc[p] = "put_fill" /\ Unseedable(op[p].id, cursor[p]) /\
              (pc'[p] /= pc[p] \/ cursor'[p] /= cursor[p])) =>
                 /\ pc'[p] = "done" /\ result'[p].kind = "Panic"
          /\ (op'[p].name = "put" /\ result[p] = NoResult /\ result'[p].kind = "Panic") =>
                 /\ pc[p] = "put_fill" /\ op[p].policy = "Fill"
                 /\ Unseedable(op[p].id, cursor[p])
                 /\ calls'[p] = UploadedPutLog(op[p].id)
                 /\ store' = store
                 /\ get_sst_meta_path(op[p].id) \in DOMAIN store'
                 /\ \/ get_sst_data_path(op[p].id) \in DOMAIN store'
                    \/ op[p].id \in deleted_data
                 /\ block_cache' = block_cache
                 /\ block_cache_capacity >= SeedableWeight =>
                        \A i \in 0 .. cursor[p] - 1 :
                            /\ BlockKey(op[p].id, i) \in DOMAIN block_cache'
                            /\ Ok(block_cache'[BlockKey(op[p].id, i)]) =
                                   SeededBlock(op[p].id, i)]_vars

\* C26 witness: a put with Fill of the file whose data ends inside its
\* second block has panicked; both its objects are in the store and its
\* first block is in the block cache.
C26_Witness ==
    \E p \in Callers :
        /\ op[p].name = "put" /\ op[p].id = 3 /\ pc[p] = "done"
        /\ result[p].kind = "Panic" /\ cursor[p] = 1
        /\ calls[p] = UploadedPutLog(3)
        /\ {get_sst_data_path(3), get_sst_meta_path(3)} \subseteq DOMAIN store
        /\ BlockKey(3, 0) \in DOMAIN block_cache

\* A step of caller p's put.
PutStep(p) == op'[p].name = "put" /\ CallerStep(p)

\* C27 as stated: a put that has inserted a block into the block cache and
\* is over has succeeded with policy Fill.
C27_PutChangesCacheOnlyOnSuccess ==
    \A p \in Callers :
        (op[p].name = "put" /\ pc[p] = "done" /\ cursor[p] > 0) =>
            (op[p].policy = "Fill" /\ result[p].kind = "Ok")

\* C27, amended: a step of put changes the block cache only in the Fill
\* loop, with policy Fill and after both uploads have succeeded, and no step
\* of put changes the meta cache; a put that returns an error, and a put that
\* returns Ok with NotFill or Disable, has inserted nothing.
C27_PutChangesCacheOnlyInFillLoop ==
    [][\A p \in Callers :
          PutStep(p) =>
              /\ meta_cache' = meta_cache
              /\ block_cache' /= block_cache =>
                     /\ pc[p] = "put_fill" /\ op[p].policy = "Fill"
                     /\ calls[p] = UploadedPutLog(op[p].id)
              /\ (/\ pc'[p] = "done"
                  /\ \/ result'[p].kind = "ObjectIoError"
                     \/ op'[p].policy /= "Fill") =>
                     /\ block_cache' = block_cache
                     /\ cursor'[p] = 0]_vars

\* C27 witness: a put with Fill whose meta upload failed has returned the
\* error, a put with Disable has returned Ok, and the block cache is empty.
C27_Witness ==
    \E p, q \in Callers :
        /\ op[p].name = "put" /\ op[p].policy = "Fill" /\ pc[p] = "done"
        /\ PutData(p, "ok") /\ PutMeta(p, "err")
        /\ result[p].kind = "ObjectIoError"
        /\ op[q].name = "put" /\ op[q].policy = "Disable" /\ pc[q] = "done"
        /\ result[q].kind = "Ok"
        /\ block_cache = << >>

\* The state of the coalescing slot of a block key and of an sst id:
\* Fetching while a fetch for the key is in flight, otherwise Ready when the
\* cache holds the key and Empty when it does not.
BlockSlot(key) ==
    IF BlockFetchers(key) /= {} THEN "Fetching"
    ELSE IF key \in DOMAIN block_cache THEN "Ready" ELSE "Empty"
MetaSlot(sst_id) ==
    IF SstFetchers(sst_id) /= {} THEN "Fetching"
    ELSE IF sst_id \in DOMAIN meta_cache THEN "Ready" ELSE "Empty"

\* The transitions of a slot through a fetch.
FetchTransitions ==
    {<< "Empty", "Fetching" >>, << "Fetching", "Ready" >>, << "Fetching", "Empty" >>}

\* C25 as stated: a slot of the block cache or of the meta cache changes
\* state only along Empty -> Fetching -> Ready or Empty -> Fetching -> Empty.
C25_SlotsOnlyFetch ==
    [][/\ \A key \in BlockKeys :
             \/ BlockSlot(key)' = BlockSlot(key)
             \/ << BlockSlot(key), BlockSlot(key)' >> \in FetchTransitions
       /\ \A sst_id \in SstIds :
             \/ MetaSlot(sst_id)' = MetaSlot(sst_id)
             \/ << MetaSlot(sst_id), MetaSlot(sst_id)' >> \in FetchTransitions]_vars

\* C25, amended: a slot changes state along Empty -> Fetching -> Ready or
\* Empty -> Fetching -> Empty, and besides only in two ways: a block slot goes
\* Empty -> Ready when the Fill loop of a put inserts its block, and a slot
\* goes Ready -> Empty when the insert of another key evicts its entry.  A
\* Ready slot never starts a fetch.
C25_SlotsFetchInsertEvict ==
    [][/\ \A key \in BlockKeys :
             \/ BlockSlot(key)' = BlockSlot(key)
             \/ << BlockSlot(key), BlockSlot(key)' >> \in FetchTransitions
             \/ /\ BlockSlot(key) = "Empty" /\ BlockSlot(key)' = "Ready"
                /\ \E p \in Callers :
                       /\ pc[p] = "put_fill"
                       /\ BlockKey(op[p].id, cursor[p]) = key
                       /\ cursor'[p] = cursor[p] + 1
             \/ /\ BlockSlot(key) = "Ready" /\ BlockSlot(key)' = "Empty"
                /\ DOMAIN block_cache' \ DOMAIN block_cache /= {}
       /\ \A sst_id \in SstIds :
             \/ MetaSlot(sst_id)' = MetaSlot(sst_id)
             \/ << MetaSlot(sst_id), MetaSlot(sst_id)' >> \in FetchTransitions
             \/ /\ MetaSlot(sst_id) = "Ready" /\ MetaSlot(sst_id)' = "Empty"
                /\ DOMAIN meta_cache' \ DOMAIN meta_cache /= {}]_vars

\* C25 witness: the first block of file 1 is being fetched by a get with
\* Fill while its second block, inserted by a put with Fill and never
\* fetched, is Ready, and the slot of an sst id is Ready after a fetch.
C25_Witness ==
    /\ BlockSlot(BlockKey(1, 0)) = "Fetching"
    /\ BlockSlot(BlockKey(1, 1)) = "Ready"
    /\ \E sst_id \in SstIds : MetaSlot(sst_id) = "Ready"

\* The lists the map records for an id, none when it has no entry.
RecordedFor(plan_node_id) ==
    IF plan_node_id \in DOMAIN share_required_cols_map
    THEN share_required_cols_map[plan_node_id]
    ELSE << >>

\* C29: the context records per plan node id exactly the lists added since
\* the id's last take, in insertion order; add_required_cols(id, cols)
\* appends cols and returns their number; take_required_cols(id) returns
\* them, or None when there are none, and removes the entry, so that a take
\* right after a take of the same id returns None and the next add returns
\* 1; neither call changes the entry of another id.
C29_RequiredColsPerId ==
    /\ [](\A id \in PlanNodeIds :
            /\ RecordedFor(id) = required_since_take[id]
            /\ id \in DOMAIN share_required_cols_map => RecordedFor(id) /= << >>)
    /\ [][\A id \in PlanNodeIds :
             required_cols_ret'.id = id =>
                 /\ required_cols_ret'.call = "add_required_cols" =>
                        /\ \E cols \in RequiredCols :
                               RecordedFor(id)' = Append(RecordedFor(id), cols)
                        /\ required_cols_ret'.val = Len(required_since_take[id]) + 1
                        /\ (required_cols_ret.call = "take_required_cols" /\
                            required_cols_ret.id = id) => required_cols_ret'.val = 1
                 /\ required_cols_ret'.call = "take_required_cols" =>
                        /\ required_cols_ret'.val =
                               IF required_since_take[id] = << >> THEN None
                               ELSE Some(required_since_take[id])
                        /\ id \notin DOMAIN share_required_cols_map'
                        /\ (required_cols_ret.call = "take_required_cols" /\
                            required_cols_ret.id = id) => required_cols_ret'.val = None
                 /\ \A other \in PlanNodeIds \ {id} :
                        /\ RecordedFor(other)' = RecordedFor(other)
                        /\ (other \in DOMAIN share_required_cols_map') =
                               (other \in DOMAIN share_required_cols_map)]_pruning_vars

\* C29 witness: a take has returned the two lists added for id 1, in the
\* order they were added, while the list of id 2 is still recorded.
C29_Witness ==
    /\ required_cols_ret.call = "take_required_cols"
    /\ required_cols_ret.id = 1
    /\ required_cols_ret.val = Some(<< << 1, 0 >>, << 0 >> >>)
    /\ 1 \notin DOMAIN share_required_cols_map
    /\ RecordedFor(2) = << << 0 >> >>

\* ---- meta nodes
LeaderSrv(n) == svc_pc[n] = "leader_srv"
FollowerSrv(n) == follower[n] \in {"running", "signalled"}
Terminated(n) == svc_pc[n] \in {"returned", "leader_returned"}
Leaders == {n \in nodes : LeaderSrv(n)}

\* The election has settled: a node holds the lease, every node has been told
\* so and its service task has acted on what it was told; no shutdown was sent.
Settled ==
    /\ lease /= 0
    /\ \A n \in nodes :
          /\ ~svc_shutdown[n]
          /\ leader_status[n] = StatusFor(n)
          /\ svc_pc[n] \notin {"wait_first", "loop", "await_follower"}
          /\ svc_pc[n] = "select" => ~leader_rx_unseen[n]

\* C22: once the election among the started nodes has settled, exactly one
\* node runs leader services and every other node runs follower services; two
\* nodes never run leader services at once.
C22_SingleLeader ==
    /\ Cardinality(Leaders) <= 1
    /\ Settled =>
          /\ Cardinality(Leaders) = 1
          /\ \A n \in nodes \ Leaders : follower[n] = "running" /\ svc_pc[n] = "select"
          /\ \A n \in Leaders : ~FollowerSrv(n)
C22_Witness ==
    /\ Settled /\ nodes = Nodes
    /\ \E n \in nodes :
          /\ LeaderSrv(n) /\ follower[n] = "none"
          /\ \A m \in nodes \ {n} : follower[m] = "running"

\* The nodes beside n that were not sent a shutdown.
Remaining(n) == {m \in nodes \ {n} : ~svc_shutdown[m]}
NewLeader(n) ==
    \E m \in nodes \ {n} :
        /\ Leaders = {m}
        /\ ~FollowerSrv(m)

\* C23: after the leader was shut down and its leader services returned,
\* while another node stays running one of the remaining nodes comes to run
\* leader services, alone and without its follower services; when the node was
\* the only one, no node runs leader services from then on.
C23_Failover ==
    /\ \A n \in Nodes :
          svc_pc[n] = "leader_returned" ~> (NewLeader(n) \/ Remaining(n) = {})
    /\ [](\A n \in Nodes :
            svc_pc[n] = "leader_returned" /\ nodes = {n} => Leaders = {})
    /\ [][\A n \in Nodes :
            svc_pc[n] = "leader_returned" => svc_pc'[n] = "leader_returned"]_vars
C23_Witness ==
    \E n \in nodes, m \in nodes :
        /\ svc_pc[n] = "leader_returned"
        /\ LeaderSrv(m) /\ follower[m] = "stopped" /\ ~svc_shutdown[m]

\* C24: the service task of a node that was sent a shutdown terminates,
\* whether it waits for leadership or runs leader services; a task that takes
\* the shutdown branch while it waits returns, and has not started and never
\* starts leader services.
C24_ShutdownTerminates ==
    /\ \A n \in Nodes : svc_shutdown[n] ~> Terminated(n)
    /\ [][\A n \in Nodes :
            /\ svc_pc[n] = "select" /\ svc_pc'[n] /= "select"
                 => svc_pc'[n] \in {"loop", "returned"}
            /\ svc_pc'[n] = "returned" /\ svc_pc[n] /= "returned"
                 => svc_pc[n] = "select" /\ svc_shutdown[n]
            /\ svc_pc[n] = "returned" => svc_pc'[n] = "returned"
            /\ svc_pc'[n] = "leader_srv" /\ svc_pc[n] /= "leader_srv"
                 => svc_pc[n] \in {"loop", "await_follower"}]_vars
C24_Witness ==
    \E n \in nodes, m \in nodes :
        /\ svc_pc[n] = "returned" /\ follower[n] = "stopped"
        /\ svc_pc[m] = "leader_returned"

\* C28: on each node follower services start only at the first leader
\* status and only when it says the node is not leader; leader services start
\* only after the task saw the node as leader and, when follower services were
\* started, after it signalled them and they are down; follower and leader
\* services never run together and follower services never start again.
C28_FollowerThenLeader ==
    /\ [](\A n \in Nodes : ~(FollowerSrv(n) /\ svc_pc[n] \in {"leader_srv", "leader_returned"}))
    /\ [][\A n \in Nodes :
            /\ follower'[n] = "running" /\ follower[n] /= "running"
                 => svc_pc[n] = "wait_first" /\ ~node_is_leader(n)
            /\ svc_pc[n] = "loop" /\ svc_pc'[n] \in {"await_follower", "leader_srv"}
                 => node_is_leader(n)
            /\ svc_pc'[n] = "await_follower" /\ svc_pc[n] /= "await_follower"
                 => svc_pc[n] = "loop" /\ follower'[n] \in {"signalled", "stopped"}
            /\ svc_pc'[n] = "leader_srv" /\ svc_pc[n] /= "leader_srv"
                 => \/ svc_pc[n] = "loop" /\ follower[n] = "none"
                    \/ svc_pc[n] = "await_follower" /\ follower[n] = "stopped"]_vars
C28_Witness ==
    \E n \in nodes, m \in nodes :
        /\ LeaderSrv(n) /\ follower[n] = "stopped"
        /\ svc_pc[m] = "leader_returned" /\ follower[m] = "none"

\* Every variable keeps to its type.
TypeOK ==
    /\ DOMAIN store \subseteq
          {get_sst_data_path(i) : i \in SstIds \cup MismatchedIds} \cup
          {get_sst_meta_path(i) : i \in SstIds \cup MismatchedIds}
    /\ DOMAIN block_cache \subseteq (SstIds \cup MismatchedIds) \X BlockIdxs
    /\ DOMAIN meta_cache \subseteq SstIds
    /\ block_request_counts \in 0 .. MaxRequests
    /\ pc \in [Callers -> {"idle", "done", "cancelled", "put_data", "put_meta",
                           "put_rollback", "put_fill", "delete", "stream",
                           "fetch", "fill_fetch", "fill_detached", "wait",
                           "sst_fetch", "sst_detached", "sst_wait"}]
    /\ deleted_data \subseteq SstIds \cup MismatchedIds
    /\ DOMAIN share_required_cols_map \subseteq PlanNodeIds
    /\ nodes \subseteq Nodes /\ lease \in 0 .. NumNodes
    /\ election \in [Nodes -> {"running", "stopped"}]
    /\ leader_status \in [Nodes -> {"unknown", "follower", "leader"}]
    /\ leader_rx_unseen \in [Nodes -> BOOLEAN]
    /\ svc_pc \in [Nodes -> {"absent", "wait_first", "loop", "select",
                             "await_follower", "leader_srv", "returned",
                             "leader_returned"}]
    /\ follower \in [Nodes -> {"none", "running", "signalled", "stopped"}]
    /\ svc_shutdown \in [Nodes -> BOOLEAN]
    /\ \A id \in DOMAIN share_required_cols_map :
          Len(share_required_cols_map[id]) \in 1 .. MaxLists

====
